---- MODULE Spec2Model ----
(***************************************************************************)
(* A model of mcmc-rs (src/src/lib.rs): the memcached text/meta protocol   *)
(* codec, the pipeline dispatcher and the CRC32 sharding router.           *)
(*                                                                         *)
(* Byte strings (Vec<u8>, &[u8], String) are TLA+ strings, so that the     *)
(* encoders and the decoders are modelled byte for byte.  A call ends in   *)
(* one of three ways: "Ok", "Err" (io::Result::Err) or "Panic" (an unwrap  *)
(* on None/Err, an unreachable!, a slice index out of range).              *)
(***************************************************************************)
EXTENDS Integers, Sequences, FiniteSets, TLC

VARIABLES
    conn,     \* the Connection's stream: rd = bytes sent by the server and not
              \* yet read, wr = bytes written by the client, io = I/O calls made
    cmds,     \* Pipeline.1: the pending encoded commands
    calls,    \* history: the calls made so far (builder, connection or router)
    srv,      \* history: what the server sent, and what it meant by it
    ret,      \* the outcome of the last call
    shards    \* ClientCrc32.0: the router's connections

vars == <<conn, cmds, calls, srv, ret, shards>>

-----------------------------------------------------------------------------
(* Strings: the std operations the code uses.                              *)

Char(s, i) == SubSeq(s, i, i)

\* str::starts_with / slice::starts_with
StartsWith(s, p) == Len(s) >= Len(p) /\ SubSeq(s, 1, Len(p)) = p

\* str::ends_with / slice::ends_with
EndsWith(s, p) == Len(s) >= Len(p) /\ SubSeq(s, Len(s) - Len(p) + 1, Len(s)) = p

\* The index of the first c in s at or after i, 0 when there is none.
RECURSIVE Find(_, _, _)
Find(s, c, i) ==
    IF i > Len(s) THEN 0
    ELSE IF Char(s, i) = c THEN i
    ELSE Find(s, c, i + 1)

\* str::split(c): the pieces between the occurrences of c, empty ones
\* included.  SplitAt: the pieces from start on, the next c being at i.
RECURSIVE SplitFrom(_, _, _)
RECURSIVE SplitAt(_, _, _, _)
SplitAt(s, c, start, i) ==
    IF i = 0 THEN << SubSeq(s, start, Len(s)) >>
    ELSE << SubSeq(s, start, i - 1) >> \o SplitFrom(s, c, i + 1)

SplitFrom(s, c, start) == SplitAt(s, c, start, Find(s, c, start))

Split(s, c) == SplitFrom(s, c, 1)

\* iter().filter(|x| x == c).count()
RECURSIVE CountFrom(_, _, _)
CountFrom(s, c, i) ==
    IF i > Len(s) THEN 0
    ELSE (IF Char(s, i) = c THEN 1 ELSE 0) + CountFrom(s, c, i + 1)

Count(s, c) == CountFrom(s, c, 1)

Whitespace == {" ", "\r", "\n", "\t"}

\* str::trim_end
RECURSIVE TrimEnd(_)
TrimEnd(s) ==
    IF Len(s) > 0 /\ Char(s, Len(s)) \in Whitespace
    THEN TrimEnd(SubSeq(s, 1, Len(s) - 1))
    ELSE s

\* Vec::truncate / String::truncate: no effect when n >= len.
Truncate(s, n) == IF n >= Len(s) THEN s ELSE SubSeq(s, 1, n)

\* [a, b, ...].join(sep)
RECURSIVE Join(_, _)
Join(seq, sep) ==
    IF Len(seq) = 0 THEN ""
    ELSE IF Len(seq) = 1 THEN seq[1]
    ELSE seq[1] \o sep \o Join(Tail(seq), sep)

\* [a, b, ...].concat()
RECURSIVE Concat(_)
Concat(seq) == IF Len(seq) = 0 THEN "" ELSE seq[1] \o Concat(Tail(seq))

-----------------------------------------------------------------------------
(* Numbers as decimal text: to_string and str::parse.                      *)

Digits == "0123456789"

IsDigit(c) == \E d \in 0..9 : Char(Digits, d + 1) = c

DigitVal(c) == CHOOSE d \in 0..9 : Char(Digits, d + 1) = c

RECURSIVE NatToString(_)
NatToString(n) ==
    IF n < 10 THEN Char(Digits, n + 1)
    ELSE NatToString(n \div 10) \o Char(Digits, (n % 10) + 1)

\* to_string of an integer
to_string(n) == IF n < 0 THEN "-" \o NatToString(0 - n) ELSE NatToString(n)

RECURSIVE DigitsVal(_, _)
DigitsVal(s, acc) ==
    IF s = "" THEN acc ELSE DigitsVal(Tail(s), acc * 10 + DigitVal(Head(s)))

AllDigits(s) == \A i \in 1..Len(s) : IsDigit(Char(s, i))

NoNumber == [ok |-> FALSE, v |-> 0]

\* The digits after the sign: one or more, nothing else.
ParseDigits(body, sign) ==
    IF body = "" \/ ~AllDigits(body) THEN NoNumber
    ELSE [ok |-> TRUE, v |-> sign * DigitsVal(body, 0)]

\* str::parse::<u32|u64|usize>(): an optional '+', then one or more digits.
\* The decimal tokens of the model stay far below 2^31, so the width of the
\* wide types plays no part; u8 keeps its width (ParseU8).
ParseUnsigned(s) == ParseDigits(IF StartsWith(s, "+") THEN Tail(s) ELSE s, 1)

\* str::parse::<i64>(): an optional '+' or '-', then one or more digits.
ParseSigned(s) == IF StartsWith(s, "-") THEN ParseDigits(Tail(s), -1) ELSE ParseUnsigned(s)

U8Max == 255

FitsU8(p) == IF p.ok /\ p.v > U8Max THEN NoNumber ELSE p

\* str::parse::<u8>()
ParseU8(s) == FitsU8(ParseUnsigned(s))

-----------------------------------------------------------------------------
(* The stream S: AsyncBufRead + AsyncWrite, and the outcome of a call.     *)

Stream(rd) == [rd |-> rd, wr |-> "", io |-> ""]

Ok(v, s) == [st |-> "Ok", val |-> v, s |-> s]

\* io::Error::other(line)
Err(line, s) == [st |-> "Err", val |-> [kind |-> "Other", line |-> line], s |-> s]

\* read_exact on a stream that ends early
ErrEof(s) == [st |-> "Err", val |-> [kind |-> "UnexpectedEof", line |-> ""], s |-> s]

Panic(s) == [st |-> "Panic", val |-> [kind |-> "Panic", line |-> ""], s |-> s]

None == << >>

Some(v) == << v >>

\* s.write_all(bytes)
write_all(s, bytes) == [s EXCEPT !.wr = @ \o bytes, !.io = @ \o "w"]

\* s.flush()
flush(s) == [s EXCEPT !.io = @ \o "f"]

\* The first n unread bytes taken off the stream as a line.
take_line(s, n) ==
    [line |-> SubSeq(s.rd, 1, n),
     n    |-> n,
     s    |-> [s EXCEPT !.rd = SubSeq(@, n + 1, Len(@)), !.io = @ \o "l"]]

\* The line ends at the first LF, at i, or at the end of the stream (i = 0).
line_end(s, i) == take_line(s, IF i = 0 THEN Len(s.rd) ELSE i)

\* s.read_line(&mut line): up to and including the first LF, or to the end
\* of the stream.
read_line(s) == line_end(s, Find(s.rd, "\n", 1))

\* s.read_exact(&mut buf) with buf.len() = n
read_exact(s, n) ==
    IF Len(s.rd) < n
    THEN ErrEof([s EXCEPT !.rd = "", !.io = @ \o "x"])
    ELSE Ok(SubSeq(s.rd, 1, n),
            [s EXCEPT !.rd = SubSeq(@, n + 1, Len(@)), !.io = @ \o "x"])

-----------------------------------------------------------------------------
(* Response decoders (parse_*_rp).  A decoder reads a line r (r.line, its  *)
(* length r.n, the stream after it r.s) and a *_line operator is the match *)
(* the decoder makes on it.                                                *)

\* A variant of storage_line that takes every line but STORED for false.
storage_line_lenient(r) == Ok(r.line = "STORED\r\n", r.s)

storage_line(r) ==
    IF r.line = "STORED\r\n" THEN Ok(TRUE, r.s)
    ELSE IF r.line \in {"NOT_STORED\r\n", "EXISTS\r\n", "NOT_FOUND\r\n"}
         THEN Ok(FALSE, r.s)
    ELSE Err(r.line, r.s)

parse_storage_rp(s, noreply) ==
    IF noreply THEN Ok(TRUE, s) ELSE storage_line(read_line(s))

\* data_block.truncate(bytes) of the bytes + 2 bytes read
block_of(b, bytes) == IF b.st = "Ok" THEN Ok(Truncate(b.val, bytes), b.s) ELSE b

\* A variant of read_block that takes the data block to end at the first
\* line ending.
read_block_line(s, bytes) == Ok(TrimEnd(read_line(s).line), read_line(s).s)

\* vec![0; bytes + 2]; read_exact; truncate(bytes)
read_block(s, bytes) == block_of(read_exact(s, bytes + 2), bytes)

\* The header tuple of parse_retrieval_rp (lines 295-302) from its parsed
\* fields: the item without its data and the declared byte count, or
\* ok = FALSE when one of the unwraps panics.  cas is None without a fifth
\* token.
header_item(key, flags, bytes, cas) ==
    IF ~flags.ok \/ ~bytes.ok \/ (cas # None /\ ~cas[1].ok) THEN [ok |-> FALSE]
    ELSE [ok |-> TRUE, key |-> key, flags |-> flags.v, bytes |-> bytes.v,
          cas_unique |-> IF cas = None THEN None ELSE Some(cas[1].v)]

\* A variant of header_of that never reads a fifth token.
header_of_four(split) ==
    IF Len(split) < 4 THEN [ok |-> FALSE]
    ELSE header_item(split[2], ParseUnsigned(split[3]), ParseUnsigned(TrimEnd(split[4])),
                     None)

header_of(split) ==
    IF Len(split) < 4 THEN [ok |-> FALSE]
    ELSE header_item(split[2], ParseUnsigned(split[3]), ParseUnsigned(TrimEnd(split[4])),
                     IF Len(split) >= 5 THEN Some(ParseUnsigned(TrimEnd(split[5])))
                     ELSE None)

value_header(line) == header_of(Split(line, " "))

\* while line.starts_with("VALUE") { header; data block; next line }
RECURSIVE retrieval_loop(_, _, _)
RECURSIVE retrieval_item(_, _, _)
RECURSIVE retrieval_block(_, _, _)
RECURSIVE retrieval_next(_, _)
retrieval_next(r, items) == retrieval_loop(r.s, r.line, items)

\* A variant of retrieval_block that puts the newest item first.
retrieval_block_newest_first(h, b, items) ==
    IF b.st # "Ok" THEN b
    ELSE retrieval_next(read_line(b.s),
                        << [key |-> h.key, flags |-> h.flags,
                            cas_unique |-> h.cas_unique,
                            data_block |-> b.val] >> \o items)

retrieval_block(h, b, items) ==
    IF b.st # "Ok" THEN b
    ELSE retrieval_next(read_line(b.s),
                        Append(items, [key |-> h.key, flags |-> h.flags,
                                       cas_unique |-> h.cas_unique,
                                       data_block |-> b.val]))

retrieval_item(s, h, items) ==
    IF ~h.ok THEN Panic(s) ELSE retrieval_block(h, read_block(s, h.bytes), items)

\* A variant of retrieval_loop that ends at any line that starts with END.
retrieval_loop_prefix(s, line, items) ==
    IF StartsWith(line, "VALUE") THEN retrieval_item(s, value_header(line), items)
    ELSE IF StartsWith(line, "END") THEN Ok(items, s)
    ELSE Err(line, s)

retrieval_loop(s, line, items) ==
    IF StartsWith(line, "VALUE") THEN retrieval_item(s, value_header(line), items)
    ELSE IF line = "END\r\n" THEN Ok(items, s)
    ELSE Err(line, s)

parse_retrieval_rp(s) == retrieval_next(read_line(s), << >>)

version_line(r) ==
    IF StartsWith(r.line, "VERSION")
    THEN (IF r.n - 2 < 8 THEN Panic(r.s)              \* line[8..n - 2]
          ELSE Ok(SubSeq(r.line, 9, r.n - 2), r.s))
    ELSE Err(r.line, r.s)

parse_version_rp(s) == version_line(read_line(s))

ok_line(r) == IF r.line = "OK\r\n" THEN Ok("unit", r.s) ELSE Err(r.line, r.s)

\* A variant of parse_ok_rp that reads the line of a noreply command too.
parse_ok_rp_reading(s, noreply) == ok_line(read_line(s))

parse_ok_rp(s, noreply) == IF noreply THEN Ok("unit", s) ELSE ok_line(read_line(s))

delete_line(r) ==
    IF r.line = "DELETED\r\n" THEN Ok(TRUE, r.s)
    ELSE IF r.line = "NOT_FOUND\r\n" THEN Ok(FALSE, r.s)
    ELSE Err(r.line, r.s)

\* A variant of parse_delete_rp that waits for a response line even when
\* noreply was asked for.
parse_delete_rp_reading(s, noreply) == delete_line(read_line(s))

parse_delete_rp(s, noreply) ==
    IF noreply THEN Ok(TRUE, s) ELSE delete_line(read_line(s))

auth_line(r) == IF r.line = "STORED\r\n" THEN Ok("unit", r.s) ELSE Err(r.line, r.s)

parse_auth_rp(s) == auth_line(read_line(s))

\* A variant of incr_decr_value that takes a line without a number for a miss.
incr_decr_value_or_none(r, p) == IF p.ok THEN Ok(Some(p.v), r.s) ELSE Ok(None, r.s)

\* match line.trim_end().parse() { Ok(v) => Some(v), Err(_) => Err(line) }
incr_decr_value(r, p) == IF p.ok THEN Ok(Some(p.v), r.s) ELSE Err(r.line, r.s)

incr_decr_line(r) ==
    IF r.line = "NOT_FOUND\r\n" THEN Ok(None, r.s)
    ELSE incr_decr_value(r, ParseUnsigned(TrimEnd(r.line)))

parse_incr_decr_rp(s, noreply) ==
    IF noreply THEN Ok(None, s) ELSE incr_decr_line(read_line(s))

touch_line(r) ==
    IF r.line = "TOUCHED\r\n" THEN Ok(TRUE, r.s)
    ELSE IF r.line = "NOT_FOUND\r\n" THEN Ok(FALSE, r.s)
    ELSE Err(r.line, r.s)

parse_touch_rp(s, noreply) ==
    IF noreply THEN Ok(TRUE, s) ELSE touch_line(read_line(s))

mn_line(r) == IF r.line = "MN\r\n" THEN Ok("unit", r.s) ELSE Err(r.line, r.s)

parse_mn_rp(s) == mn_line(read_line(s))

me_line(r) ==
    IF r.line = "EN\r\n" THEN Ok(None, r.s)
    ELSE IF StartsWith(r.line, "ME")
         THEN (IF Len(r.line) - 2 < 3 THEN Panic(r.s)   \* line[3..line.len() - 2]
               ELSE Ok(Some(SubSeq(r.line, 4, Len(r.line) - 2)), r.s))
    ELSE Err(r.line, r.s)

parse_me_rp(s) == me_line(read_line(s))

-----------------------------------------------------------------------------
(* Meta responses.  An item under construction is Some(item), and None     *)
(* once a flag token made the decoder panic.                               *)

MgItem ==
    [success |-> FALSE, base64_key |-> FALSE, cas |-> None, flags |-> None,
     hit |-> None, key |-> None, last_access_ttl |-> None, opaque |-> None,
     size |-> None, ttl |-> None, data_block |-> None, won_recache |-> FALSE,
     stale |-> FALSE, already_win |-> FALSE]

MsItem ==
    [success |-> FALSE, cas |-> None, key |-> None, opaque |-> None,
     size |-> None, base64_key |-> FALSE]

MdItem == [success |-> FALSE, key |-> None, opaque |-> None, base64_key |-> FALSE]

MaItem ==
    [success |-> FALSE, opaque |-> None, ttl |-> None, cas |-> None,
     number |-> None, key |-> None, base64_key |-> FALSE]

\* field = Some(f.parse().unwrap())
SetParsed(it, field, p) == IF p.ok THEN Some([it EXCEPT ![field] = Some(p.v)]) ELSE None

\* A variant of SetText that accepts the token and leaves the field unset.
SetTextDropped(it, field, f) == Some(it)

\* field = Some(f.to_string())
SetText(it, field, f) == Some([it EXCEPT ![field] = Some(f)])

\* field = true
SetTrue(it, field) == Some([it EXCEPT ![field] = TRUE])

\* The match of parse_mg_rp on &flag[..1], with f = &flag[1..].
mg_flag(it, c, f) ==
    CASE c = "b" -> SetTrue(it, "base64_key")
      [] c = "c" -> SetParsed(it, "cas", ParseUnsigned(f))
      [] c = "f" -> SetParsed(it, "flags", ParseUnsigned(f))
      [] c = "h" -> SetParsed(it, "hit", ParseU8(f))
      [] c = "k" -> SetText(it, "key", f)
      [] c = "l" -> SetParsed(it, "last_access_ttl", ParseSigned(f))
      [] c = "O" -> SetText(it, "opaque", f)
      [] c = "s" -> SetParsed(it, "size", ParseUnsigned(f))
      [] c = "t" -> SetParsed(it, "ttl", ParseSigned(f))
      [] c = "W" -> SetTrue(it, "won_recache")
      [] c = "X" -> SetTrue(it, "stale")
      [] c = "Z" -> SetTrue(it, "already_win")
      [] OTHER   -> None                              \* unreachable!

ms_flag(it, c, f) ==
    CASE c = "c" -> SetParsed(it, "cas", ParseUnsigned(f))
      [] c = "k" -> SetText(it, "key", f)
      [] c = "O" -> SetText(it, "opaque", f)
      [] c = "s" -> SetParsed(it, "size", ParseUnsigned(f))
      [] c = "b" -> SetTrue(it, "base64_key")
      [] OTHER   -> None                              \* unreachable!

\* A variant of md_flag without the branch for the key.
md_flag_keyless(it, c, f) ==
    CASE c = "O" -> SetText(it, "opaque", f)
      [] c = "b" -> SetTrue(it, "base64_key")
      [] OTHER   -> None

md_flag(it, c, f) ==
    CASE c = "k" -> SetText(it, "key", f)
      [] c = "O" -> SetText(it, "opaque", f)
      [] c = "b" -> SetTrue(it, "base64_key")
      [] OTHER   -> None                              \* unreachable!

ma_flag(it, c, f) ==
    CASE c = "O" -> SetText(it, "opaque", f)
      [] c = "t" -> SetParsed(it, "ttl", ParseSigned(f))
      [] c = "c" -> SetParsed(it, "cas", ParseUnsigned(f))
      [] c = "k" -> SetText(it, "key", f)
      [] c = "b" -> SetTrue(it, "base64_key")
      [] OTHER   -> None                              \* unreachable!

\* The match of the decoder of verb on the letter c and the rest f.
verb_flag(verb, it, c, f) ==
    CASE verb = "mg" -> mg_flag(it, c, f)
      [] verb = "ms" -> ms_flag(it, c, f)
      [] verb = "md" -> md_flag(it, c, f)
      [] verb = "ma" -> ma_flag(it, c, f)

\* The body of `for flag in split`: &flag[1..] panics on an empty token.
meta_flag(verb, it, flag) ==
    IF flag = "" THEN None ELSE verb_flag(verb, it, Char(flag, 1), Tail(flag))

\* for flag in split { ... }; next is the item after the first token.
RECURSIVE meta_flags(_, _, _)
RECURSIVE meta_rest(_, _, _)
meta_rest(verb, next, tokens) ==
    IF next = None THEN None ELSE meta_flags(verb, next[1], Tail(tokens))

meta_flags(verb, it, tokens) ==
    IF Len(tokens) = 0 THEN Some(it)
    ELSE meta_rest(verb, meta_flag(verb, it, tokens[1]), tokens)

\* The status of a mg/ma line that starts with "VA": the declared length,
\* split.next().unwrap().parse().unwrap().
va_len(split) == IF Len(split) >= 2 THEN ParseUnsigned(split[2]) ELSE NoNumber

\* Lines 550-572: the data block b read when a length was given.
mg_data(it, b) ==
    IF b.st # "Ok" THEN b ELSE Ok([it EXCEPT !.data_block = Some(b.val)], b.s)

mg_block(s, it, data_len) ==
    IF it = None THEN Panic(s)
    ELSE IF data_len # None THEN mg_data(it[1], read_block(s, data_len[1]))
    ELSE Ok(it[1], s)

\* Lines 532-572: the flags, then the data block.
mg_finish(s, success, data_len, tokens) ==
    mg_block(s, meta_flags("mg", [MgItem EXCEPT !.success = success], tokens), data_len)

mg_va(s, split, len) ==
    IF ~len.ok THEN Panic(s)
    ELSE mg_finish(s, TRUE, Some(len.v), SubSeq(split, 3, Len(split)))

\* Lines 516-531: the status of the line r, split = line.trim_end().split(' ')
mg_line(r, split) ==
    IF StartsWith(r.line, "VA") THEN mg_va(r.s, split, va_len(split))
    ELSE IF StartsWith(r.line, "HD") THEN mg_finish(r.s, TRUE, None, Tail(split))
    ELSE IF StartsWith(r.line, "EN") THEN mg_finish(r.s, FALSE, None, Tail(split))
    ELSE Err(r.line, r.s)

mg_status(r) == mg_line(r, Split(TrimEnd(r.line), " "))

parse_mg_rp(s) == mg_status(read_line(s))

ms_md_item(s, it) == IF it = None THEN Panic(s) ELSE Ok(it[1], s)

\* Lines 586-607 and 621-638: the flags of a ms or md line.
ms_md_finish(verb, s, item, line) ==
    ms_md_item(s, meta_flags(verb, item, Tail(Split(TrimEnd(line), " "))))

ms_line(r) ==
    IF StartsWith(r.line, "HD")
    THEN ms_md_finish("ms", r.s, [MsItem EXCEPT !.success = TRUE], r.line)
    ELSE IF StartsWith(r.line, "NS") \/ StartsWith(r.line, "EX") \/ StartsWith(r.line, "NF")
    THEN ms_md_finish("ms", r.s, [MsItem EXCEPT !.success = FALSE], r.line)
    ELSE Err(r.line, r.s)

parse_ms_rp(s) == ms_line(read_line(s))

md_line(r) ==
    IF StartsWith(r.line, "HD")
    THEN ms_md_finish("md", r.s, [MdItem EXCEPT !.success = TRUE], r.line)
    ELSE IF StartsWith(r.line, "NF") \/ StartsWith(r.line, "EX")
    THEN ms_md_finish("md", r.s, [MdItem EXCEPT !.success = FALSE], r.line)
    ELSE Err(r.line, r.s)

parse_md_rp(s) == md_line(read_line(s))

\* Lines 673-678: the number line r truncated to the declared length a.
ma_number(it, r, p) ==
    IF p.ok THEN Ok([it EXCEPT !.number = Some(p.v)], r.s) ELSE Panic(r.s)

ma_read(it, r, a) == ma_number(it, r, ParseUnsigned(Truncate(r.line, a)))

ma_block(s, it, data_len) ==
    IF it = None THEN Panic(s)
    ELSE IF data_len # None THEN ma_read(it[1], read_line(s), data_len[1])
    ELSE Ok(it[1], s)

\* Lines 662-688: the flags, then the number read with read_line.
ma_finish(s, success, data_len, tokens) ==
    ma_block(s, meta_flags("ma", [MaItem EXCEPT !.success = success], tokens), data_len)

ma_va(s, split, len) ==
    IF ~len.ok THEN Panic(s)
    ELSE ma_finish(s, TRUE, Some(len.v), SubSeq(split, 3, Len(split)))

ma_line(r, split) ==
    IF StartsWith(r.line, "VA") THEN ma_va(r.s, split, va_len(split))
    ELSE IF StartsWith(r.line, "HD") THEN ma_finish(r.s, TRUE, None, Tail(split))
    ELSE IF StartsWith(r.line, "NS") \/ StartsWith(r.line, "EX") \/ StartsWith(r.line, "NF")
    THEN ma_finish(r.s, FALSE, None, Tail(split))
    ELSE Err(r.line, r.s)

ma_status(r) == ma_line(r, Split(TrimEnd(r.line), " "))

parse_ma_rp(s) == ma_status(read_line(s))

-----------------------------------------------------------------------------
(* Command encoders (build_*_cmd).  An Option argument is None or Some(v). *)

NoreplySuffix(noreply) == IF noreply THEN " noreply" ELSE ""

\* A variant of build_storage_cmd that puts the cas value after noreply.
build_storage_cmd_cas_last(command_name, key, flags, exptime, cas_unique, noreply, data_block) ==
    command_name \o " " \o key \o " " \o to_string(flags) \o " " \o to_string(exptime)
        \o " " \o to_string(Len(data_block)) \o NoreplySuffix(noreply)
        \o (IF cas_unique # None THEN " " \o to_string(cas_unique[1]) ELSE "")
        \o "\r\n" \o data_block \o "\r\n"

build_storage_cmd(command_name, key, flags, exptime, cas_unique, noreply, data_block) ==
    LET cas == IF cas_unique # None THEN " " \o to_string(cas_unique[1]) ELSE "" IN
    command_name \o " " \o key \o " " \o to_string(flags) \o " " \o to_string(exptime)
        \o " " \o to_string(Len(data_block)) \o cas \o NoreplySuffix(noreply)
        \o "\r\n" \o data_block \o "\r\n"

\* A variant of build_retrieval_cmd that puts a space before CR LF.
build_retrieval_cmd_padded(command_name, exptime, keys) ==
    command_name \o " " \o (IF exptime # None THEN to_string(exptime[1]) \o " " ELSE "")
        \o Join(keys, " ") \o " \r\n"

build_retrieval_cmd(command_name, exptime, keys) ==
    LET t == IF exptime # None THEN to_string(exptime[1]) \o " " ELSE "" IN
    command_name \o " " \o t \o Join(keys, " ") \o "\r\n"

build_version_cmd == "version\r\n"

build_quit_cmd == "quit\r\n"

build_shutdown_cmd(graceful) == IF graceful THEN "shutdown graceful\r\n" ELSE "shutdown\r\n"

build_cache_memlimit_cmd(limit, noreply) ==
    "cache_memlimit " \o to_string(limit) \o NoreplySuffix(noreply) \o "\r\n"

build_flush_all_cmd(exptime, noreply) ==
    LET d == IF exptime # None THEN " " \o to_string(exptime[1]) ELSE "" IN
    "flush_all" \o d \o NoreplySuffix(noreply) \o "\r\n"

build_delete_cmd(key, noreply) == "delete " \o key \o NoreplySuffix(noreply) \o "\r\n"

\* A variant of build_auth_cmd with the placeholder key only.
build_auth_cmd_short(username, password) ==
    "set _ " \o to_string(Len(username) + Len(password) + 1) \o "\r\n"
        \o username \o " " \o password \o "\r\n"

build_auth_cmd(username, password) ==
    "set _ _ _ " \o to_string(Len(username) + Len(password) + 1) \o "\r\n"
        \o username \o " " \o password \o "\r\n"

build_incr_decr_cmd(command_name, key, value, noreply) ==
    command_name \o " " \o key \o " " \o to_string(value) \o NoreplySuffix(noreply) \o "\r\n"

build_touch_cmd(key, exptime, noreply) ==
    "touch " \o key \o " " \o to_string(exptime) \o NoreplySuffix(noreply) \o "\r\n"

build_mn_cmd == "mn\r\n"

\* A variant of build_me_cmd that writes the verb in capitals.
build_me_cmd_capital(key) == "ME " \o key \o "\r\n"

build_me_cmd(key) == "me " \o key \o "\r\n"

build_lru_crawler_cmd(arg) ==
    IF arg = "Enable" THEN "lru_crawler enable\r\n" ELSE "lru_crawler disable\r\n"

\* flags: the bytes build_m?_flags rendered; data_block: None, or Some(bytes) for ms
build_mc_cmd(command_name, key, flags, data_block) ==
    LET data_len == IF data_block # None THEN " " \o to_string(Len(data_block[1])) ELSE ""
        data     == IF data_block # None THEN data_block[1] ELSE ""
        end      == IF data_block # None THEN "\r\n" ELSE ""
    IN  command_name \o " " \o key \o data_len \o flags \o "\r\n" \o data \o end

\* A flag is [f |-> variant name, n |-> its numeric argument, t |-> its string
\* argument or mode name]; n = 0 and t = "" where the variant has none.
mg_flag_token(x) ==
    CASE x.f = "Base64Key"        -> " b"
      [] x.f = "ReturnCas"        -> " c"
      [] x.f = "ReturnFlags"      -> " f"
      [] x.f = "ReturnHit"        -> " h"
      [] x.f = "ReturnKey"        -> " k"
      [] x.f = "ReturnLastAccess" -> " l"
      [] x.f = "Opaque"           -> " O" \o x.t
      [] x.f = "ReturnSize"       -> " s"
      [] x.f = "ReturnTtl"        -> " t"
      [] x.f = "UnBump"           -> " u"
      [] x.f = "ReturnValue"      -> " v"
      [] x.f = "NewCas"           -> " E" \o to_string(x.n)
      [] x.f = "Autovivify"       -> " N" \o to_string(x.n)
      [] x.f = "RecacheTtl"       -> " R" \o to_string(x.n)
      [] x.f = "UpdateTtl"        -> " T" \o to_string(x.n)

ms_flag_token(x) ==
    CASE x.f = "Base64Key"   -> " b"
      [] x.f = "ReturnCas"   -> " c"
      [] x.f = "CompareCas"  -> " C" \o to_string(x.n)
      [] x.f = "NewCas"      -> " E" \o to_string(x.n)
      [] x.f = "SetFlags"    -> " F" \o to_string(x.n)
      [] x.f = "Invalidate"  -> " I"
      [] x.f = "ReturnKey"   -> " k"
      [] x.f = "Opaque"      -> " O" \o x.t
      [] x.f = "ReturnSize"  -> " s"
      [] x.f = "Ttl"         -> " T" \o to_string(x.n)
      [] x.f = "Mode"        -> (CASE x.t = "Add"     -> " ME"
                                   [] x.t = "Append"  -> " MA"
                                   [] x.t = "Prepend" -> " MP"
                                   [] x.t = "Replace" -> " MR"
                                   [] x.t = "Set"     -> " MS")
      [] x.f = "Autovivify"  -> " N" \o to_string(x.n)

md_flag_token(x) ==
    CASE x.f = "Base64Key"   -> " b"
      [] x.f = "CompareCas"  -> " C" \o to_string(x.n)
      [] x.f = "NewCas"      -> " E" \o to_string(x.n)
      [] x.f = "Invalidate"  -> " I"
      [] x.f = "ReturnKey"   -> " k"
      [] x.f = "Opaque"      -> " O" \o x.t
      [] x.f = "UpdateTtl"   -> " T" \o to_string(x.n)
      [] x.f = "LeaveKey"    -> " x"

ma_flag_token(x) ==
    CASE x.f = "Base64Key"   -> " b"
      [] x.f = "CompareCas"  -> " C" \o to_string(x.n)
      [] x.f = "NewCas"      -> " E" \o to_string(x.n)
      [] x.f = "AutoCreate"  -> " N" \o to_string(x.n)
      [] x.f = "InitValue"   -> " J" \o to_string(x.n)
      [] x.f = "DeltaApply"  -> " D" \o to_string(x.n)
      [] x.f = "UpdateTtl"   -> " T" \o to_string(x.n)
      [] x.f = "Mode"        -> (CASE x.t = "Incr" -> " M+"
                                   [] x.t = "Decr" -> " M-")
      [] x.f = "Opaque"      -> " O" \o x.t
      [] x.f = "ReturnTtl"   -> " t"
      [] x.f = "ReturnCas"   -> " c"
      [] x.f = "ReturnValue" -> " v"
      [] x.f = "ReturnKey"   -> " k"

\* flags.iter().for_each(...): one token per flag, in the caller's order
RECURSIVE build_flags(_, _)
\* A variant of build_flags that renders a flag repeated in a row once.
build_flags_merged(verb, flags) ==
    IF Len(flags) = 0 THEN ""
    ELSE IF Len(flags) >= 2 /\ flags[1] = flags[2] THEN build_flags(verb, Tail(flags))
    ELSE (CASE verb = "mg" -> mg_flag_token(flags[1])
            [] verb = "ms" -> ms_flag_token(flags[1])
            [] verb = "md" -> md_flag_token(flags[1])
            [] verb = "ma" -> ma_flag_token(flags[1]))
         \o build_flags(verb, Tail(flags))

build_flags(verb, flags) ==
    IF Len(flags) = 0 THEN ""
    ELSE (CASE verb = "mg" -> mg_flag_token(flags[1])
            [] verb = "ms" -> ms_flag_token(flags[1])
            [] verb = "md" -> md_flag_token(flags[1])
            [] verb = "ma" -> ma_flag_token(flags[1]))
         \o build_flags(verb, Tail(flags))

build_mg_flags(flags) == build_flags("mg", flags)

build_ms_flags(flags) == build_flags("ms", flags)

build_md_flags(flags) == build_flags("md", flags)

build_ma_flags(flags) == build_flags("ma", flags)

-----------------------------------------------------------------------------
(* Multi-line decoders.                                                    *)

\* Lines::poll_next: a trailing LF is removed, and then a CR before it.
strip_newline(l) ==
    IF EndsWith(l, "\r\n") THEN SubSeq(l, 1, Len(l) - 2)
    ELSE IF EndsWith(l, "\n") THEN SubSeq(l, 1, Len(l) - 1)
    ELSE l

line_of(r) == [line |-> Some(strip_newline(r.line)), s |-> r.s]

\* s.lines().next(): None at the end of the stream, else the next line
\* without its line ending.
lines_next(s) ==
    IF s.rd = "" THEN [line |-> None, s |-> [s EXCEPT !.io = @ \o "l"]]
    ELSE line_of(read_line(s))

\* items: the HashMap as a function from key to value
RECURSIVE stats_loop(_, _)
RECURSIVE stats_line(_, _)
RECURSIVE stats_data(_, _, _)
RECURSIVE stats_stat(_, _, _)
stats_stat(s, split, items) ==
    IF Len(split) < 3 THEN Panic(s)
    ELSE stats_loop(s, (split[2] :> TrimEnd(split[3])) @@ items)

stats_data(s, data, items) ==
    IF StartsWith(data, "STAT") THEN stats_stat(s, Split(data, " "), items)
    ELSE IF data = "END" THEN Ok(items, s)
    ELSE Err(data, s)

stats_line(n, items) ==
    IF n.line = None THEN Ok(items, n.s) ELSE stats_data(n.s, n.line[1], items)

stats_loop(s, items) == stats_line(lines_next(s), items)

parse_stats_rp(s) == stats_loop(s, << >>)

RECURSIVE metadump_loop(_, _, _)
RECURSIVE metadump_next(_, _)
metadump_next(r, items) == metadump_loop(r.s, r.line, items)

\* A variant of metadump_loop that takes the end of the stream for the end
\* of the dump.
metadump_loop_eof(s, line, items) ==
    IF StartsWith(line, "key=")
    THEN metadump_next(read_line(s), Append(items, TrimEnd(line)))
    ELSE IF line = "END\r\n" \/ line = "" THEN Ok(items, s)
    ELSE Err(line, s)

metadump_loop(s, line, items) ==
    IF StartsWith(line, "key=")
    THEN metadump_next(read_line(s), Append(items, TrimEnd(line)))
    ELSE IF line = "END\r\n" THEN Ok(items, s)
    ELSE Err(line, s)

parse_lru_crawler_metadump_rp(s) == metadump_next(read_line(s), << >>)

RECURSIVE mgdump_loop(_, _, _)
RECURSIVE mgdump_next(_, _)
mgdump_next(r, items) == mgdump_loop(r.s, r.line, items)

mgdump_loop(s, line, items) ==
    IF StartsWith(line, "mg ")
    THEN mgdump_next(read_line(s), Append(items, TrimEnd(Split(line, " ")[2])))
    ELSE IF line = "EN\r\n" THEN Ok(items, s)
    ELSE Err(line, s)

parse_lru_crawler_mgdump_rp(s) == mgdump_next(read_line(s), << >>)

-----------------------------------------------------------------------------
(* The pipeline dispatcher.                                                *)

\* PipelineResponse::tag(value) of a decoder's Ok, its Err or panic as it is
Wrap(tag, r) == IF r.st = "Ok" THEN Ok([tag |-> tag, val |-> r.val], r.s) ELSE r

\* Vec::pop
Pop(r) ==
    IF r.st # "Ok" THEN r
    ELSE Ok(IF Len(r.val) = 0 THEN None ELSE Some(r.val[Len(r.val)]), r.s)

\* cmd.split(|x| x == &b'\r').next().unwrap()
FirstLine(cmd) == Split(cmd, "\r")[1]

\* A variant of no_response that waits for the line OK.
no_response_reading(s) == Wrap("Unit", parse_ok_rp(s, FALSE))

\* Lines 1341-1342: PipelineResponse::Unit(()) for quit and shutdown, with
\* no decoder called.
no_response(s) == Ok([tag |-> "Unit", val |-> "unit"], s)

\* One iteration of the loop of execute_cmd (lines 1299-1381): the decoder
\* chosen from the bytes of cmd, applied to s.
dispatch(s, cmd) ==
    IF \/ StartsWith(cmd, "gets ") \/ StartsWith(cmd, "get ")
       \/ StartsWith(cmd, "gats ") \/ StartsWith(cmd, "gat ")
    THEN (IF \/ (StartsWith(cmd, "gat") /\ Count(cmd, " ") = 2)
             \/ (StartsWith(cmd, "get") /\ Count(cmd, " ") = 1)
          THEN Wrap("OptionItem", Pop(parse_retrieval_rp(s)))
          ELSE Wrap("VecItem", parse_retrieval_rp(s)))
    ELSE IF StartsWith(cmd, "set _ _ _ ") THEN Wrap("Unit", parse_auth_rp(s))
    ELSE IF \/ StartsWith(cmd, "set ") \/ StartsWith(cmd, "add ")
            \/ StartsWith(cmd, "replace ") \/ StartsWith(cmd, "append ")
            \/ StartsWith(cmd, "prepend ") \/ StartsWith(cmd, "cas ")
    THEN Wrap("Bool", parse_storage_rp(s, EndsWith(FirstLine(cmd), "noreply")))
    ELSE IF cmd = build_version_cmd THEN Wrap("String", parse_version_rp(s))
    ELSE IF StartsWith(cmd, "delete ")
    THEN Wrap("Bool", parse_delete_rp(s, EndsWith(cmd, "noreply\r\n")))
    ELSE IF StartsWith(cmd, "incr ") \/ StartsWith(cmd, "decr ")
    THEN Wrap("Value", parse_incr_decr_rp(s, EndsWith(cmd, "noreply\r\n")))
    ELSE IF StartsWith(cmd, "touch ")
    THEN Wrap("Bool", parse_touch_rp(s, EndsWith(cmd, "noreply\r\n")))
    ELSE IF cmd = build_quit_cmd \/ StartsWith(cmd, "shutdown")
    THEN no_response(s)
    ELSE IF StartsWith(cmd, "flush_all") \/ StartsWith(cmd, "cache_memlimit ")
    THEN Wrap("Unit", parse_ok_rp(s, EndsWith(cmd, "noreply\r\n")))
    ELSE IF \/ StartsWith(cmd, "slabs automove ") \/ StartsWith(cmd, "slabs reassign ")
            \/ StartsWith(cmd, "lru_crawler sleep ") \/ StartsWith(cmd, "lru_crawler crawl ")
            \/ StartsWith(cmd, "lru_crawler tocrawl ")
            \/ cmd = build_lru_crawler_cmd("Enable")
            \/ cmd = build_lru_crawler_cmd("Disable")
    THEN Wrap("Unit", parse_ok_rp(s, FALSE))
    ELSE IF cmd = build_mn_cmd THEN Wrap("Unit", parse_mn_rp(s))
    ELSE IF StartsWith(cmd, "stats") THEN Wrap("HashMap", parse_stats_rp(s))
    ELSE IF StartsWith(cmd, "lru_crawler metadump ")
    THEN Wrap("VecString", parse_lru_crawler_metadump_rp(s))
    ELSE IF StartsWith(cmd, "lru_crawler mgdump ")
    THEN Wrap("VecString", parse_lru_crawler_mgdump_rp(s))
    ELSE IF StartsWith(cmd, "mg ") THEN Wrap("MetaGet", parse_mg_rp(s))
    ELSE IF StartsWith(cmd, "ms ") THEN Wrap("MetaSet", parse_ms_rp(s))
    ELSE IF StartsWith(cmd, "md ") THEN Wrap("MetaDelete", parse_md_rp(s))
    ELSE IF StartsWith(cmd, "ma ") THEN Wrap("MetaArithmetic", parse_ma_rp(s))
    ELSE IF StartsWith(cmd, "lru ") THEN Wrap("Unit", parse_ok_rp(s, FALSE))
    ELSE IF ~StartsWith(cmd, "me ") THEN Panic(s)               \* assert!
    ELSE Wrap("OptionString", parse_me_rp(s))

\* for cmd in cmds { ... }: the first Err or panic ends the call and drops
\* result.  The "|" put into s.io marks where the decoding of a command
\* starts (history only).  execute_next: r is the outcome of rest[1].
RECURSIVE execute_loop(_, _, _)
RECURSIVE execute_next(_, _, _)
\* A variant of execute_next that skips a line after a failed decoder, to
\* find the next response.
execute_next_resync(r, rest, result) ==
    IF r.st # "Ok" THEN [r EXCEPT !.s = read_line(r.s).s]
    ELSE execute_loop(r.s, Tail(rest), Append(result, r.val))

execute_next(r, rest, result) ==
    IF r.st # "Ok" THEN r ELSE execute_loop(r.s, Tail(rest), Append(result, r.val))

execute_loop(s, rest, result) ==
    IF Len(rest) = 0 THEN Ok(result, s)
    ELSE execute_next(dispatch([s EXCEPT !.io = @ \o "|"], rest[1]), rest, result)

\* A variant of execute_cmd that sends the first command only before it
\* starts to read.
execute_cmd_first(s, pending) ==
    execute_loop(flush(write_all(s, pending[1])), pending, << >>)

execute_cmd(s, pending) ==
    execute_loop(flush(write_all(s, Concat(pending))), pending, << >>)

\* Pipeline::execute
\* A variant of execute without the early return for an empty pipeline.
execute_unguarded(s, pending) == execute_cmd(s, pending)

execute(s, pending) ==
    IF Len(pending) = 0 THEN Ok(<< >>, s) ELSE execute_cmd(s, pending)

-----------------------------------------------------------------------------
(* The *_cmd functions: write the command, flush, decode the response.     *)

\* A variant of Send that leaves the command in the write buffer.
SendUnflushed(s, bytes) == write_all(s, bytes)

Send(s, bytes) == flush(write_all(s, bytes))

version_cmd(s) == parse_version_rp(Send(s, build_version_cmd))

cache_memlimit_cmd(s, limit, noreply) ==
    parse_ok_rp(Send(s, build_cache_memlimit_cmd(limit, noreply)), noreply)

flush_all_cmd(s, exptime, noreply) ==
    parse_ok_rp(Send(s, build_flush_all_cmd(exptime, noreply)), noreply)

storage_cmd(s, command_name, key, flags, exptime, cas_unique, noreply, data_block) ==
    parse_storage_rp(
        Send(s, build_storage_cmd(command_name, key, flags, exptime, cas_unique,
                                  noreply, data_block)),
        noreply)

delete_cmd(s, key, noreply) == parse_delete_rp(Send(s, build_delete_cmd(key, noreply)), noreply)

incr_decr_cmd(s, command_name, key, value, noreply) ==
    parse_incr_decr_rp(Send(s, build_incr_decr_cmd(command_name, key, value, noreply)), noreply)

touch_cmd(s, key, exptime, noreply) ==
    parse_touch_rp(Send(s, build_touch_cmd(key, exptime, noreply)), noreply)

retrieval_cmd(s, command_name, exptime, keys) ==
    parse_retrieval_rp(Send(s, build_retrieval_cmd(command_name, exptime, keys)))

me_cmd(s, key) == parse_me_rp(Send(s, build_me_cmd(key)))

ms_cmd(s, key, flags, data_block) ==
    parse_ms_rp(Send(s, build_mc_cmd("ms", key, build_ms_flags(flags), Some(data_block))))

mg_cmd(s, key, flags) ==
    parse_mg_rp(Send(s, build_mc_cmd("mg", key, build_mg_flags(flags), None)))

md_cmd(s, key, flags) ==
    parse_md_rp(Send(s, build_mc_cmd("md", key, build_md_flags(flags), None)))

ma_cmd(s, key, flags) ==
    parse_ma_rp(Send(s, build_mc_cmd("ma", key, build_ma_flags(flags), None)))

-----------------------------------------------------------------------------
(* Bounds of the model.                                                    *)

MaxSteps == 3      \* calls and server lines of one run on a connection

MaxCmds == 2       \* commands added to one pipeline

MaxFlags == 2      \* tokens after the status of a response line

MaxItems == 2      \* items of one retrieval response

MaxShards == 3     \* connections of a router

MaxCalls == 2      \* calls made on one router, or in one session

MaxLines == 2      \* lines of a response that one decoder is run on

-----------------------------------------------------------------------------
(* impl Connection: each method hands its arguments and the stream of the  *)
(* connection to its *_cmd function.  A call is recorded as the method     *)
(* name op with its key and noreply arguments.                             *)

Call(op, key, noreply) == [op |-> op, key |-> key, noreply |-> noreply]

StorageOps == {"set", "add", "replace", "append", "prepend"}

\* The methods whose command carries ' noreply' on request
NoreplyOps == StorageOps \cup {"cas", "delete", "incr", "decr", "touch", "flush_all", "cache_memlimit"}

NoCall ==
    [c |-> Call("none", "", FALSE), st |-> "None", val |-> "none",
     before |-> Stream(""), after |-> Stream("")]

\* The call c made on the connection with the outcome r: the stream moves
\* to r.s, and ret keeps the outcome with the stream before and after.
DoCall(c, r) ==
    /\ Len(calls) + Len(srv) < MaxSteps
    /\ conn' = r.s
    /\ ret' = [c |-> c, st |-> r.st, val |-> r.val, before |-> conn, after |-> r.s]
    /\ calls' = Append(calls, c)
    /\ UNCHANGED <<cmds, srv, shards>>

DirectKeys == {"k"}

DirectLines == {"STORED\r\n", "OK\r\n", "ERROR\r\n"}

\* The server's next line arrives on the connection.
ServerSend(line) ==
    /\ Len(calls) + Len(srv) < MaxSteps
    /\ conn' = [conn EXCEPT !.rd = @ \o line]
    /\ srv' = Append(srv, line)
    /\ UNCHANGED <<cmds, calls, ret, shards>>

\* Connection::set / append (key, flags, exptime, noreply, data_block)
Storage(op, key, noreply) ==
    DoCall(Call(op, key, noreply), storage_cmd(conn, op, key, 0, 0, None, noreply, "v"))

\* Connection::cas (key, flags, exptime, cas_unique, noreply, data_block)
Cas(key, noreply) ==
    DoCall(Call("cas", key, noreply), storage_cmd(conn, "cas", key, 0, 0, Some(1), noreply, "v"))

Delete(key, noreply) == DoCall(Call("delete", key, noreply), delete_cmd(conn, key, noreply))

IncrDecr(op, key, noreply) ==
    DoCall(Call(op, key, noreply), incr_decr_cmd(conn, op, key, 1, noreply))

Touch(key, noreply) == DoCall(Call("touch", key, noreply), touch_cmd(conn, key, 0, noreply))

FlushAll(noreply) == DoCall(Call("flush_all", "", noreply), flush_all_cmd(conn, None, noreply))

CacheMemlimit(noreply) ==
    DoCall(Call("cache_memlimit", "", noreply), cache_memlimit_cmd(conn, 1, noreply))

InitDirect ==
    /\ conn = Stream("")
    /\ cmds = << >>
    /\ calls = << >>
    /\ srv = << >>
    /\ ret = NoCall
    /\ shards = << >>

NextDirect ==
    \/ \E line \in DirectLines : ServerSend(line)
    \/ \E op \in {"set", "append"}, key \in DirectKeys, noreply \in BOOLEAN : Storage(op, key, noreply)
    \/ \E key \in DirectKeys, noreply \in BOOLEAN : Cas(key, noreply)
    \/ \E key \in DirectKeys, noreply \in BOOLEAN : Delete(key, noreply)
    \/ \E op \in {"incr", "decr"}, key \in DirectKeys, noreply \in BOOLEAN : IncrDecr(op, key, noreply)
    \/ \E key \in DirectKeys, noreply \in BOOLEAN : Touch(key, noreply)
    \/ \E noreply \in BOOLEAN : FlushAll(noreply)
    \/ \E noreply \in BOOLEAN : CacheMemlimit(noreply)

SpecDirect == InitDirect /\ [][NextDirect]_vars

\* The bytes the last call wrote, and their first line (through the LF).
Written == SubSeq(ret.after.wr, Len(ret.before.wr) + 1, Len(ret.after.wr))

WrittenLine == SubSeq(Written, 1, Find(Written, "\n", 1))

\* What a noreply call returns: true, None or ().
NoreplyValue(op, v) ==
    CASE op \in StorageOps \cup {"cas", "delete", "touch"} -> v = TRUE
      [] op \in {"incr", "decr"} -> v = None
      [] op \in {"flush_all", "cache_memlimit"} -> v = "unit"

\* C4: a storage, delete, incr/decr, touch, flush_all or cache_memlimit call
\* made with noreply=true writes a command line that ends with " noreply"
\* CR LF, returns Ok(true / None / ()) and reads nothing: the unread bytes
\* of the stream are the same as before the call.
C4_NoreplyDirect ==
    (ret.st # "None" /\ ret.c.op \in NoreplyOps /\ ret.c.noreply) =>
        /\ EndsWith(WrittenLine, " noreply\r\n")
        /\ ret.st = "Ok"
        /\ NoreplyValue(ret.c.op, ret.val)
        /\ ret.after.rd = ret.before.rd
        /\ ret.after.io = ret.before.io \o "wf"

\* A noreply delete made while an unread line is pending on the stream.
C4_Witness ==
    /\ ret.st = "Ok" /\ ret.c.op = "delete" /\ ret.c.noreply
    /\ ret.before.rd = "ERROR\r\n"

-----------------------------------------------------------------------------
(* Pipeline: the builder methods push the encoded command, execute sends   *)
(* them all and decodes the responses in order.                            *)

\* Pipeline::<method>: self.1.push(bytes)
\* A variant of Push that writes the command to the stream at once.
PushWriting(c, bytes) ==
    /\ ret.st = "None" /\ srv = << >>
    /\ Len(cmds) < MaxCmds
    /\ cmds' = Append(cmds, bytes)
    /\ calls' = Append(calls, c)
    /\ conn' = write_all(conn, bytes)
    /\ UNCHANGED <<srv, ret, shards>>

Push(c, bytes) ==
    /\ ret.st = "None" /\ srv = << >>
    /\ Len(cmds) < MaxCmds
    /\ cmds' = Append(cmds, bytes)
    /\ calls' = Append(calls, c)
    /\ UNCHANGED <<conn, srv, ret, shards>>

PipeKeys == {"k", "knoreply"}

PSet(key, noreply) ==
    Push(Call("set", key, noreply), build_storage_cmd("set", key, 0, 0, None, noreply, "v"))

PCas(key, noreply) ==
    Push(Call("cas", key, noreply), build_storage_cmd("cas", key, 0, 0, Some(1), noreply, "v"))

PDelete(key, noreply) == Push(Call("delete", key, noreply), build_delete_cmd(key, noreply))

PIncr(key, noreply) == Push(Call("incr", key, noreply), build_incr_decr_cmd("incr", key, 1, noreply))

PTouch(key, noreply) == Push(Call("touch", key, noreply), build_touch_cmd(key, 0, noreply))

PFlushAll(noreply) == Push(Call("flush_all", "", noreply), build_flush_all_cmd(None, noreply))

PCacheMemlimit(noreply) ==
    Push(Call("cache_memlimit", "", noreply), build_cache_memlimit_cmd(1, noreply))

PGet(key) == Push(Call("get", key, FALSE), build_retrieval_cmd("get", None, << key >>))

\* Pipeline::get_multi(keys): the call is recorded with its keys joined
PGetMulti(keys) ==
    Push(Call("get_multi", Join(keys, " "), FALSE), build_retrieval_cmd("get", None, keys))

PVersion == Push(Call("version", "", FALSE), build_version_cmd)

PQuit == Push(Call("quit", "", FALSE), build_quit_cmd)

PMg(key) == Push(Call("mg", key, FALSE), build_mc_cmd("mg", key, build_mg_flags(<< >>), None))

\* What the server sends for one command: the bytes, whether they are a
\* well-formed response to it, and the PipelineResponse they stand for.
Reply(bytes, wf, tag, val) == [bytes |-> bytes, wf |-> wf, tag |-> tag, val |-> val]

ItemOf(key) == [key |-> key, flags |-> 0, cas_unique |-> None, data_block |-> "v"]

ValueOf(key) == "VALUE " \o key \o " 0 1\r\nv\r\n"

\* The methods that take a list of keys
MultiOps == {"get_multi", "gets_multi", "gat_multi", "gats_multi"}

\* The responses of the memcached protocol to the command of call c.  A
\* command sent with noreply, and quit, get no response.  The response to
\* a retrieval command with one key stands for an item or none, that to one
\* with several keys for a list of items.
Replies(c) ==
    CASE c.op \in StorageOps \cup {"cas", "delete", "touch"} /\ c.noreply ->
            {Reply("", TRUE, "Bool", TRUE)}
      [] c.op = "incr" /\ c.noreply -> {Reply("", TRUE, "Value", None)}
      [] c.op \in {"flush_all", "cache_memlimit", "quit", "shutdown"}
         /\ (c.noreply \/ c.op \in {"quit", "shutdown"}) ->
            {Reply("", TRUE, "Unit", "unit")}
      [] c.op \in StorageOps \cup {"cas"} /\ ~c.noreply ->
            {Reply("STORED\r\n", TRUE, "Bool", TRUE), Reply("NOT_STORED\r\n", TRUE, "Bool", FALSE),
             Reply("ERROR\r\n", FALSE, "Bool", FALSE)}
      [] c.op = "delete" /\ ~c.noreply ->
            {Reply("DELETED\r\n", TRUE, "Bool", TRUE), Reply("NOT_FOUND\r\n", TRUE, "Bool", FALSE),
             Reply("ERROR\r\n", FALSE, "Bool", FALSE)}
      [] c.op = "touch" /\ ~c.noreply ->
            {Reply("TOUCHED\r\n", TRUE, "Bool", TRUE), Reply("ERROR\r\n", FALSE, "Bool", FALSE)}
      [] c.op = "incr" /\ ~c.noreply ->
            {Reply("5\r\n", TRUE, "Value", Some(5)), Reply("NOT_FOUND\r\n", TRUE, "Value", None),
             Reply("ERROR\r\n", FALSE, "Value", None)}
      [] c.op \in {"flush_all", "cache_memlimit"} /\ ~c.noreply ->
            {Reply("OK\r\n", TRUE, "Unit", "unit"), Reply("ERROR\r\n", FALSE, "Unit", "unit")}
      [] c.op \in {"get", "gets", "gat", "gats"} \/ (c.op \in MultiOps /\ c.key = "k") ->
            {Reply(ValueOf("k") \o "END\r\n", TRUE, "OptionItem", Some(ItemOf("k"))),
             Reply("END\r\n", TRUE, "OptionItem", None),
             Reply("ERROR\r\n", FALSE, "OptionItem", None)}
      [] c.op \in MultiOps /\ c.key = "k j" ->
            {Reply(ValueOf("k") \o ValueOf("j") \o "END\r\n", TRUE, "VecItem",
                   << ItemOf("k"), ItemOf("j") >>),
             Reply("END\r\n", TRUE, "VecItem", << >>),
             Reply("ERROR\r\n", FALSE, "VecItem", << >>)}
      [] c.op = "version" ->
            {Reply("VERSION 1.6\r\n", TRUE, "String", "1.6"), Reply("ERROR\r\n", FALSE, "String", "")}
      [] c.op = "auth" ->
            {Reply("STORED\r\n", TRUE, "Unit", "unit"), Reply("NOT_STORED\r\n", FALSE, "Unit", "unit"),
             Reply("ERROR\r\n", FALSE, "Unit", "unit")}
      [] c.op = "mg" ->
            {Reply("HD\r\n", TRUE, "MetaGet", [MgItem EXCEPT !.success = TRUE]),
             Reply("EN\r\n", TRUE, "MetaGet", MgItem),
             Reply("ERROR\r\n", FALSE, "MetaGet", MgItem)}

\* The server answers the oldest command it has not answered yet.
ServerReply ==
    /\ ret.st = "None"
    /\ Len(srv) < Len(calls)
    /\ \E e \in Replies(calls[Len(srv) + 1]) :
          /\ conn' = [conn EXCEPT !.rd = @ \o e.bytes]
          /\ srv' = Append(srv, e)
    /\ UNCHANGED <<cmds, calls, ret, shards>>

Executed(r) ==
    /\ conn' = r.s
    /\ ret' = [c |-> Call("execute", "", FALSE), st |-> r.st, val |-> r.val,
               before |-> conn, after |-> r.s]
    /\ cmds' = << >>
    /\ UNCHANGED <<calls, srv, shards>>

\* Pipeline::execute, once the server has answered every command
Execute ==
    /\ ret.st = "None"
    /\ Len(srv) = Len(calls)
    /\ Executed(execute(conn, cmds))

InitPipeline ==
    /\ conn = Stream("")
    /\ cmds = << >>
    /\ calls = << >>
    /\ srv = << >>
    /\ ret = NoCall
    /\ shards = << >>

NextPipeline ==
    \/ \E key \in {"k"}, noreply \in BOOLEAN : PSet(key, noreply)
    \/ \E key \in {"k"}, noreply \in {FALSE} : PCas(key, noreply)
    \/ \E key \in PipeKeys, noreply \in BOOLEAN : PDelete(key, noreply)
    \/ \E key \in {"k"}, noreply \in BOOLEAN : PIncr(key, noreply)
    \/ \E key \in {"k"}, noreply \in BOOLEAN : PTouch(key, noreply)
    \/ \E noreply \in BOOLEAN : PFlushAll(noreply)
    \/ \E noreply \in BOOLEAN : PCacheMemlimit(noreply)
    \/ \E key \in {"k"} : PGet(key)
    \/ \E keys \in {<< "k" >>, << "k", "j" >>} : PGetMulti(keys)
    \/ PVersion
    \/ PQuit
    \/ \E key \in {"k"} : PMg(key)
    \/ ServerReply
    \/ Execute

SpecPipeline == InitPipeline /\ [][NextPipeline]_vars

\* The server has sent a well-formed response to every command.
AllWellFormed == \A i \in 1..Len(srv) : srv[i].wf

\* C1: when every command of the pipeline got a well-formed response (none
\* for a command that expects no reply), execute returns Ok with one value
\* per command, and the i-th value is the decoding of the response to the
\* i-th command (the placeholder true / None / () where there is none).
C1_PipelineDecodesInOrder ==
    (ret.c.op = "execute" /\ AllWellFormed) =>
        /\ ret.st = "Ok"
        /\ Len(ret.val) = Len(calls)
        /\ \A i \in 1..Len(calls) :
              ret.val[i].tag = srv[i].tag /\ ret.val[i].val = srv[i].val

\* C2: when the responses to the first K commands are well-formed and the
\* next one is malformed, execute returns Err (an io::Error, none of the K
\* decoded values).
C2_PipelineErrorNoPartial ==
    (ret.c.op = "execute" /\ ~AllWellFormed) =>
        ret.st = "Err" /\ ret.val.kind \in {"Other", "UnexpectedEof"}

\* The reads execute made for each command: the I/O history of the call,
\* cut at the marks that start the decoding of a command.
ReadsByCommand == Tail(Split(ret.after.io, "|"))

\* C3: for a storage, delete, incr, touch, flush_all or cache_memlimit
\* command of the pipeline, execute reads no response if the command was
\* added with noreply=true and exactly one line if it was added with
\* noreply=false, whatever its key.
C3_NoreplyByArgument ==
    ret.c.op = "execute" =>
        \A i \in 1..Len(ReadsByCommand) :
            calls[i].op \in NoreplyOps =>
                ReadsByCommand[i] = (IF calls[i].noreply THEN "" ELSE "l")

-----------------------------------------------------------------------------
(* One response decoded by one call: the server's response is on the       *)
(* stream, and a meta or retrieval method of the connection decodes it.    *)

\* The first tokens of the response line (the status, and the length or the
\* header fields that go with it).
Statuses ==
    {"VA 2", "VA x", "HD", "EN", "NS", "EX", "NF", "END", "HDX",
     "VALUE k 0 2", "VALUE k x 2", "VALUE k 0 x"}

\* The tokens that follow: return flags with well-formed and malformed
\* arguments, a letter no decoder knows, and the empty token between two
\* spaces.
FlagTokens ==
    {"b", "c7", "cx", "f0", "h1", "h256", "kfoo", "l-1", "Oop", "s5", "t-1", "t",
     "W", "X", "Z", "q", ""}

FlagLists == UNION {[1..n -> FlagTokens] : n \in 0..MaxFlags}

\* What follows the line: the data block or the number of a VA response
\* and the rest of a VALUE response.
Payloads(status) ==
    IF StartsWith(status, "VALUE") THEN {"12\r\nEND\r\n"}
    ELSE IF status = "VA 2" THEN {"12\r\n", "ab\r\n", "123\r\n"}
    ELSE IF StartsWith(status, "VA") THEN {"12\r\n"}
    ELSE {""}

ResponseLine(status, tokens) == Join(<< status >> \o tokens, " ") \o "\r\n"

InitMeta ==
    /\ \E status \in Statuses, tokens \in FlagLists :
          \E payload \in Payloads(status) :
             /\ conn = Stream(ResponseLine(status, tokens) \o payload)
             /\ srv = << [status |-> status, tokens |-> tokens, payload |-> payload,
                          line |-> ResponseLine(status, tokens)] >>
    /\ cmds = << >>
    /\ calls = << >>
    /\ ret = NoCall
    /\ shards = << >>

\* The one call c that decodes the response, with the outcome r.
Decode(c, r) ==
    /\ calls = << >>
    /\ conn' = r.s
    /\ ret' = [c |-> c, st |-> r.st, val |-> r.val, before |-> conn, after |-> r.s]
    /\ calls' = << c >>
    /\ UNCHANGED <<cmds, srv, shards>>

MgFlag(f) == [f |-> f, n |-> 0, t |-> ""]

\* The flags of a mg request: none, or key and cas to be returned
MgRequests == {<< >>, << MgFlag("ReturnKey"), MgFlag("ReturnCas") >>}

Mg(key, flags) == Decode(Call("mg", key, FALSE), mg_cmd(conn, key, flags))

Ms(key) == Decode(Call("ms", key, FALSE), ms_cmd(conn, key, << >>, "v"))

Md(key) == Decode(Call("md", key, FALSE), md_cmd(conn, key, << >>))

Ma(key) == Decode(Call("ma", key, FALSE), ma_cmd(conn, key, << >>))

\* Connection::get: retrieval_cmd(..).pop()
Get(key) == Decode(Call("get", key, FALSE), Pop(retrieval_cmd(conn, "get", None, << key >>)))

NextMeta ==
    \/ \E key \in DirectKeys, flags \in MgRequests : Mg(key, flags)
    \/ \E key \in DirectKeys : Ms(key)
    \/ \E key \in DirectKeys : Md(key)
    \/ \E key \in DirectKeys : Ma(key)
    \/ \E key \in DirectKeys : Get(key)

SpecMeta == InitMeta /\ [][NextMeta]_vars

MetaOps == {"mg", "ms", "md", "ma"}

\* The first space-separated token of the response line
FirstToken == Split(srv[1].status, " ")[1]

\* The status tokens of the meta protocol that each decoder is written for
Accepted(op) ==
    CASE op = "mg" -> {"VA", "HD", "EN"}
      [] op = "ms" -> {"HD", "NS", "EX", "NF"}
      [] op = "md" -> {"HD", "NF", "EX"}
      [] op = "ma" -> {"VA", "HD", "NS", "EX", "NF"}

\* The flag letters of the items: MgItem, MsItem, MdItem, MaItem
FlagField ==
    [b |-> "base64_key", c |-> "cas", f |-> "flags", h |-> "hit", k |-> "key",
     l |-> "last_access_ttl", O |-> "opaque", s |-> "size", t |-> "ttl",
     W |-> "won_recache", X |-> "stale", Z |-> "already_win"]

Letters(op) ==
    CASE op = "mg" -> {"b", "c", "f", "h", "k", "l", "O", "s", "t", "W", "X", "Z"}
      [] op = "ms" -> {"c", "k", "O", "s", "b"}
      [] op = "md" -> {"k", "O", "b"}
      [] op = "ma" -> {"O", "t", "c", "k", "b"}

BoolLetters == {"b", "W", "X", "Z"}

NumericLetters == {"c", "f", "h", "l", "s", "t"}

\* The tokens of the catalogue whose number is malformed (no digits, or
\* out of the range of its type)
BadNumbers == {"cx", "h256", "t"}

\* A token that starts with letter is present in the response line.
Present(letter) ==
    \E i \in 1..Len(srv[1].tokens) :
        srv[1].tokens[i] # "" /\ Char(srv[1].tokens[i], 1) = letter

\* Every flag token of the line starts with a letter the decoder of op knows.
OnlyKnownFlags(op) ==
    \A i \in 1..Len(srv[1].tokens) :
        srv[1].tokens[i] # "" /\ Char(srv[1].tokens[i], 1) \in Letters(op)

\* C6: the first space-separated token of the line decides the status of a
\* meta response: VA and HD give success = true, EN, NS, EX and NF give
\* success = false, and with any other first token the call returns the
\* line as a protocol error.
C6_FirstTokenDecides ==
    (ret.st # "None" /\ ret.c.op \in MetaOps) =>
        /\ FirstToken \notin {"VA", "HD", "EN", "NS", "EX", "NF"} =>
              (ret.st = "Err" /\ ret.val.kind = "Other" /\ ret.val.line = srv[1].line)
        /\ ret.st = "Ok" => (ret.val.success <=> FirstToken \in {"VA", "HD"})

\* C7: a meta response with a status its decoder accepts and a flag token
\* whose first letter that decoder does not know makes the call return Err.
C7_UnknownFlagIsError ==
    (/\ ret.st # "None" /\ ret.c.op \in MetaOps
     /\ FirstToken \in Accepted(ret.c.op) /\ srv[1].status # "VA x"
     /\ \E i \in 1..Len(srv[1].tokens) :
           srv[1].tokens[i] # "" /\ Char(srv[1].tokens[i], 1) \notin Letters(ret.c.op))
    => ret.st = "Err"

\* The response has a malformed numeric field where the decoder of op reads
\* a number, and nothing else is wrong with it.
MalformedNumber(op) ==
    IF op = "get"
    THEN StartsWith(srv[1].status, "VALUE")
         /\ (srv[1].status # "VALUE k 0 2" \/ srv[1].tokens # << >>)
    ELSE /\ FirstToken \in Accepted(op)
         /\ OnlyKnownFlags(op)
         /\ \/ srv[1].status = "VA x"
            \/ \E i \in 1..Len(srv[1].tokens) :
                  /\ srv[1].tokens[i] \in BadNumbers
                  /\ Char(srv[1].tokens[i], 1) \in NumericLetters
            \/ op = "ma" /\ srv[1].payload = "ab\r\n"

\* C8: a response with a malformed numeric field (a VALUE header field, the
\* length after VA, the argument of a numeric flag, the number of ma) makes
\* the call return a protocol error that carries the offending line.
C8_MalformedNumberIsError ==
    (ret.st # "None" /\ MalformedNumber(ret.c.op)) =>
        /\ ret.st = "Err" /\ ret.val.kind = "Other"
        /\ ret.val.line \in {srv[1].line, srv[1].payload}

\* C9: in the item of an accepted meta response, each field that has a flag
\* letter is Some (true for a boolean) if and only if a token that starts
\* with that letter is present in the response line, whatever flags the
\* request asked for.
C9_FieldIffToken ==
    (ret.st = "Ok" /\ ret.c.op \in MetaOps) =>
        \A l \in Letters(ret.c.op) :
            IF l \in BoolLetters THEN ret.val[FlagField[l]] = Present(l)
            ELSE (ret.val[FlagField[l]] # None) = Present(l)

\* A mg that asked for the key and the cas and got the cas only.
C9_Witness ==
    /\ ret.st = "Ok" /\ ret.c.op = "mg"
    /\ ret.after.wr = "mg k k c\r\n"
    /\ srv[1].tokens = << "c7" >>
    /\ ret.val.cas = Some(7) /\ ret.val.key = None

-----------------------------------------------------------------------------
(* Retrieval: the server's response to a get holds up to MaxItems items,   *)
(* whose data may contain line endings and the text of the END line.       *)

DataBlocks == {"", "a", "\r\n", "END\r\n", "a\r\nEND\r\nb"}

\* The two bytes after the data block: CR LF from memcached, or any others
Terminators == {"\r\n", "xy"}

ItemSpecs ==
    [key : {"k"}, flags : {0}, cas_unique : {None, Some(7)}, data : DataBlocks,
     term : Terminators]

ItemSeqs == UNION {[1..n -> ItemSpecs] : n \in 0..MaxItems}

\* VALUE <key> <flags> <bytes> [<cas unique>]\r\n<data block>\r\n
ItemBytes(it) ==
    "VALUE " \o it.key \o " " \o to_string(it.flags) \o " " \o to_string(Len(it.data))
    \o (IF it.cas_unique = None THEN "" ELSE " " \o to_string(it.cas_unique[1]))
    \o "\r\n" \o it.data \o it.term

RECURSIVE ItemsBytes(_)
ItemsBytes(items) ==
    IF Len(items) = 0 THEN "" ELSE ItemBytes(items[1]) \o ItemsBytes(Tail(items))

InitRetrieval ==
    /\ \E items \in ItemSeqs :
          /\ conn = Stream(ItemsBytes(items) \o "END\r\n")
          /\ srv = items
    /\ cmds = << >>
    /\ calls = << >>
    /\ ret = NoCall
    /\ shards = << >>

\* Connection::gets: retrieval_cmd(..).pop()
Gets(key) == Decode(Call("gets", key, FALSE), Pop(retrieval_cmd(conn, "gets", None, << key >>)))

\* Connection::get_multi
GetMulti(keys) ==
    Decode(Call("get_multi", Join(keys, " "), FALSE), retrieval_cmd(conn, "get", None, keys))

NextRetrieval ==
    \/ \E key \in DirectKeys : Get(key)
    \/ \E key \in DirectKeys : Gets(key)
    \/ \E keys \in {<< "k" >>, << "k", "j" >>} : GetMulti(keys)

SpecRetrieval == InitRetrieval /\ [][NextRetrieval]_vars

\* The item the decoder returns for the item it of the response
Returned(it) ==
    [key |-> it.key, flags |-> it.flags, cas_unique |-> it.cas_unique, data_block |-> it.data]

\* The reads of a retrieval of n items: the first line, then one read_exact
\* and one line per item.
RECURSIVE ItemReads(_)
ItemReads(n) == IF n = 0 THEN "" ELSE "xl" \o ItemReads(n - 1)

\* C5: for each VALUE header that declares n bytes the decoder takes the
\* n + 2 bytes after the header line with one read_exact and returns the
\* first n as data_block, whatever they are: the call returns the items
\* with exactly the data the server sent and has read the response to its
\* end, with no read between the header and the next line but that one.
C5_ExactDataBlock ==
    (ret.st # "None" /\ ret.c.op \in {"get", "gets", "get_multi"}) =>
        /\ ret.st = "Ok"
        /\ ret.after.rd = ""
        /\ ret.after.io = "wfl" \o ItemReads(Len(srv))
        /\ IF ret.c.op = "get_multi"
           THEN /\ Len(ret.val) = Len(srv)
                /\ \A i \in 1..Len(srv) : ret.val[i] = Returned(srv[i])
           ELSE /\ (ret.val = None) = (srv = << >>)
                /\ srv # << >> => ret.val[1] = Returned(srv[Len(srv)])

\* A get_multi whose response holds an item with the text of the END line
\* as data and an item with a line ending as data.
C5_Witness ==
    /\ ret.st = "Ok" /\ ret.c.op = "get_multi"
    /\ Len(srv) = 2
    /\ srv[1].data = "END\r\n" /\ srv[2].data = "\r\n"
    /\ ret.val[1].data_block = "END\r\n" /\ ret.val[2].data_block = "\r\n"

-----------------------------------------------------------------------------
(* crc32fast::hash: the CRC-32 of IEEE 802.3 (reflected, polynomial        *)
(* EDB88320 hex, initial value and final xor FFFFFFFF hex), computed bit   *)
(* by bit.  A u32 is the pair << high 16 bits, low 16 bits >>.             *)

\* The bitwise exclusive or of the low `bits` bits of a and b
RECURSIVE Xor(_, _, _)
Xor(a, b, bits) ==
    IF bits = 0 THEN 0
    ELSE ((a + b) % 2) + 2 * Xor(a \div 2, b \div 2, bits - 1)

\* The bytes of the keys of the model
Ascii == [a |-> 97, b |-> 98]

\* c, already shifted right by one bit, after the bit lsb fell off
crc_poly(lsb, c) ==
    IF lsb = 1 THEN << Xor(c[1], 60856, 16), Xor(c[2], 33568, 16) >> ELSE c

crc_shift(c) ==
    crc_poly(c[2] % 2, << c[1] \div 2, (c[2] \div 2) + (c[1] % 2) * 32768 >>)

crc_byte(c, byte) ==
    crc_shift(crc_shift(crc_shift(crc_shift(crc_shift(crc_shift(crc_shift(crc_shift(
        << c[1], Xor(c[2], byte, 16) >>))))))))

RECURSIVE crc_update(_, _)
crc_update(c, bytes) ==
    IF bytes = "" THEN c
    ELSE crc_update(crc_byte(c, Ascii[Head(bytes)]), Tail(bytes))

crc_finalize(c) == << 65535 - c[1], 65535 - c[2] >>

crc32fast_hash(key) == crc_finalize(crc_update(<< 65535, 65535 >>, key))

\* hash as usize % size
Mod(c, size) == ((c[1] % size) * (65536 % size) + (c[2] % size)) % size

-----------------------------------------------------------------------------
(* ClientCrc32: a keyed method picks a connection by the CRC-32 of the key *)
(* and calls the method of the same name on it.                            *)

\* A variant of Shard that takes the connections in turn.
ShardInTurn(key) == (Len(calls) % Len(shards)) + 1

RouterKeys == {"a", "ba"}

\* crc32fast::hash(key.as_ref()) of each key of the model, computed once
KeyHash == [key \in RouterKeys |-> crc32fast_hash(key)]

\* self.0[crc32fast::hash(key.as_ref()) as usize % size], as an index from 1
Shard(key) == Mod(KeyHash[key], Len(shards)) + 1

\* A variant of Routed that sends the command to the next connection too
\* when the call failed.
RoutedFailover(c, i, r) ==
    /\ Len(calls) < MaxCalls
    /\ shards' = [shards EXCEPT ![i] = r.s,
                                ![(i % Len(shards)) + 1] =
                                    IF r.st = "Err" THEN flush(write_all(@, r.s.wr)) ELSE @]
    /\ ret' = [c |-> c, st |-> r.st, val |-> r.val, before |-> shards, after |-> shards']
    /\ calls' = Append(calls, c)
    /\ UNCHANGED <<conn, cmds, srv>>

\* A variant of Routed that takes a connection whose call failed off the
\* list.
RoutedDropFailed(c, i, r) ==
    /\ Len(calls) < MaxCalls
    /\ shards' = IF r.st = "Err" /\ Len(shards) > 1
                 THEN SubSeq(shards, 1, i - 1) \o SubSeq(shards, i + 1, Len(shards))
                 ELSE [shards EXCEPT ![i] = r.s]
    /\ ret' = [c |-> c, st |-> r.st, val |-> r.val, before |-> shards, after |-> shards']
    /\ calls' = Append(calls, c)
    /\ UNCHANGED <<conn, cmds, srv>>

\* The call c forwarded to connection i with the outcome r
Routed(c, i, r) ==
    /\ Len(calls) < MaxCalls
    /\ shards' = [shards EXCEPT ![i] = r.s]
    /\ ret' = [c |-> c, st |-> r.st, val |-> r.val, before |-> shards,
               after |-> [shards EXCEPT ![i] = r.s]]
    /\ calls' = Append(calls, c)
    /\ UNCHANGED <<conn, cmds, srv>>

\* What each server has sent before the calls
RouterLines == {"", "STORED\r\n"}

\* ClientCrc32::get / gets
RGet(op, key) ==
    Routed(Call(op, key, FALSE), Shard(key),
           Pop(retrieval_cmd(shards[Shard(key)], op, None, << key >>)))

\* ClientCrc32::gat / gats
RGat(op, key) ==
    Routed(Call(op, key, FALSE), Shard(key),
           Pop(retrieval_cmd(shards[Shard(key)], op, Some(0), << key >>)))

\* ClientCrc32::set / add / replace / append / prepend
RStorage(op, key) ==
    Routed(Call(op, key, FALSE), Shard(key),
           storage_cmd(shards[Shard(key)], op, key, 0, 0, None, FALSE, "v"))

RCas(key) ==
    Routed(Call("cas", key, FALSE), Shard(key),
           storage_cmd(shards[Shard(key)], "cas", key, 0, 0, Some(1), FALSE, "v"))

RDelete(key, noreply) ==
    Routed(Call("delete", key, noreply), Shard(key),
           delete_cmd(shards[Shard(key)], key, noreply))

\* ClientCrc32::incr / decr
RIncrDecr(op, key) ==
    Routed(Call(op, key, FALSE), Shard(key),
           incr_decr_cmd(shards[Shard(key)], op, key, 1, FALSE))

RTouch(key) ==
    Routed(Call("touch", key, FALSE), Shard(key), touch_cmd(shards[Shard(key)], key, 0, FALSE))

RMe(key) == Routed(Call("me", key, FALSE), Shard(key), me_cmd(shards[Shard(key)], key))

RMg(key) == Routed(Call("mg", key, FALSE), Shard(key), mg_cmd(shards[Shard(key)], key, << >>))

RMs(key) == Routed(Call("ms", key, FALSE), Shard(key), ms_cmd(shards[Shard(key)], key, << >>, "v"))

RMd(key) == Routed(Call("md", key, FALSE), Shard(key), md_cmd(shards[Shard(key)], key, << >>))

RMa(key) == Routed(Call("ma", key, FALSE), Shard(key), ma_cmd(shards[Shard(key)], key, << >>))

\* ClientCrc32::new(conns) with 1 to MaxShards connections
InitRouter ==
    /\ \E n \in 1..MaxShards, line \in RouterLines : shards = [i \in 1..n |-> Stream(line)]
    /\ conn = Stream("")
    /\ cmds = << >>
    /\ calls = << >>
    /\ srv = << >>
    /\ ret = NoCall

NextRouter ==
    \/ \E op \in {"get", "gets"}, key \in RouterKeys : RGet(op, key)
    \/ \E op \in {"gat", "gats"}, key \in RouterKeys : RGat(op, key)
    \/ \E op \in StorageOps, key \in RouterKeys : RStorage(op, key)
    \/ \E key \in RouterKeys : RCas(key)
    \/ \E key \in RouterKeys, noreply \in BOOLEAN : RDelete(key, noreply)
    \/ \E op \in {"incr", "decr"}, key \in RouterKeys : RIncrDecr(op, key)
    \/ \E key \in RouterKeys : RTouch(key)
    \/ \E key \in RouterKeys : RMe(key)
    \/ \E key \in RouterKeys : RMg(key)
    \/ \E key \in RouterKeys : RMs(key)
    \/ \E key \in RouterKeys : RMd(key)
    \/ \E key \in RouterKeys : RMa(key)

SpecRouter == InitRouter /\ [][NextRouter]_vars

\* The keyed methods of the router
RouterOps ==
    StorageOps \cup {"get", "gets", "gat", "gats", "cas", "delete", "incr", "decr", "touch",
                     "me", "mg", "ms", "md", "ma"}

\* The CRC-32 check values of the keys: crc32("a") = E8B7BE43 hex,
\* crc32("ba") = 2CA74A14 hex, as << high 16 bits, low 16 bits >>.
Crc32Known == [a |-> << 59575, 48707 >>, ba |-> << 11431, 18964 >>]

\* crc32(key) mod n, from the check value
KnownIndex(key, n) ==
    ((Crc32Known[key][1] % n) * (65536 % n) + (Crc32Known[key][2] % n)) % n

\* C10: every keyed call on key k of a router with N connections goes to
\* the connection at index crc32(k) mod N and to no other, whatever the
\* method, the calls made before and their outcomes.
C10_RouteByCrc32 ==
    (ret.st # "None" /\ ret.c.op \in RouterOps) =>
        \A j \in 1..Len(shards) :
            (ret.after[j] # ret.before[j]) <=> (j = KnownIndex(ret.c.key, Len(shards)) + 1)

\* Two different methods called on key "ba" of a router with three
\* connections, the first of which failed: both went to index 2.
C10_Witness ==
    /\ Len(shards) = 3 /\ Len(calls) = 2
    /\ calls[1].key = "ba" /\ calls[2].key = "ba" /\ calls[1].op # calls[2].op
    /\ ret.st = "Err"
    /\ shards[3].wr # "" /\ shards[1].wr = "" /\ shards[2].wr = ""

\* The first line of the unread bytes rd: up to and including the first LF
FirstUnreadLine(rd) ==
    IF Find(rd, "\n", 1) = 0 THEN rd ELSE SubSeq(rd, 1, Find(rd, "\n", 1))

\* C11: when the call on the connection the router selected returns an
\* error, the router returns that error (the line that connection read),
\* the selected connection has done one write, one flush and one read, and
\* no other connection has done any I/O: no retry and no failover.
C11_RouterErrorNoFailover ==
    (ret.st = "Err" /\ ret.c.op \in RouterOps) =>
        /\ ret.val = [kind |-> "Other",
                      line |-> FirstUnreadLine(
                                   ret.before[KnownIndex(ret.c.key, Len(shards)) + 1].rd)]
        /\ \A j \in 1..Len(shards) :
              IF j = KnownIndex(ret.c.key, Len(shards)) + 1
              THEN ret.after[j].io = ret.before[j].io \o "wfl"
              ELSE ret.after[j] = ret.before[j]

\* A delete on a router with three connections failed with the line
\* STORED, and the other two connections have never been used.
C11_Witness ==
    /\ Len(shards) = 3 /\ Len(calls) = 1
    /\ ret.c.op = "delete" /\ ret.c.key = "a" /\ ret.st = "Err"
    /\ ret.val.line = "STORED\r\n"
    /\ shards[1].io = "wfl" /\ shards[2].io = "" /\ shards[3].io = ""

-----------------------------------------------------------------------------
(* A session: calls made one after the other on one connection whose      *)
(* stream already holds the responses of all of them, back to back.        *)

build_stats_cmd(arg) ==
    "stats" \o (IF arg = None THEN "" ELSE " " \o arg[1]) \o "\r\n"

stats_cmd(s, arg) == parse_stats_rp(Send(s, build_stats_cmd(arg)))

auth_cmd(s, username, password) == parse_auth_rp(Send(s, build_auth_cmd(username, password)))

mn_cmd(s) == parse_mn_rp(Send(s, build_mn_cmd))

\* An exchange is a method call together with the answer a server gives it.
Exchanges ==
    {"version", "set", "set_not_stored", "set_noreply", "delete", "incr", "touch",
     "flush_all", "auth", "get_hit", "get_miss", "get_multi", "stats", "me", "mn",
     "mg_va", "mg_en", "ms", "md", "ma"}

\* The bytes of the server's answer
ResponseOf(x) ==
    CASE x = "version" -> "VERSION 1.6\r\n"
      [] x = "set" -> "STORED\r\n"
      [] x = "set_not_stored" -> "NOT_STORED\r\n"
      [] x = "set_noreply" -> ""
      [] x = "delete" -> "DELETED\r\n"
      [] x = "incr" -> "5\r\n"
      [] x = "touch" -> "TOUCHED\r\n"
      [] x = "flush_all" -> "OK\r\n"
      [] x = "auth" -> "STORED\r\n"
      [] x = "get_hit" -> "VALUE k 0 5\r\nEND\r\n\r\nEND\r\n"
      [] x = "get_miss" -> "END\r\n"
      [] x = "get_multi" -> "VALUE k 0 1\r\nv\r\nVALUE j 0 0\r\n\r\nEND\r\n"
      [] x = "stats" -> "STAT pid 1\r\nEND\r\n"
      [] x = "me" -> "ME k exp=0\r\n"
      [] x = "mn" -> "MN\r\n"
      [] x = "mg_va" -> "VA 1 c7\r\nv\r\n"
      [] x = "mg_en" -> "EN\r\n"
      [] x = "ms" -> "HD\r\n"
      [] x = "md" -> "NF\r\n"
      [] x = "ma" -> "VA 1\r\n5\r\n"

\* The sessions: 1 to MaxCalls exchanges
Sessions == UNION {[1..n -> Exchanges] : n \in 1..MaxCalls}

\* The call c, which answers exchange x, made with the outcome r
Exchange(x, c, r) ==
    /\ Len(calls) < Len(srv)
    /\ srv[Len(calls) + 1] = x
    /\ conn' = r.s
    /\ ret' = [c |-> c, st |-> r.st, val |-> r.val, before |-> conn, after |-> r.s]
    /\ calls' = Append(calls, c)
    /\ UNCHANGED <<cmds, srv, shards>>

SVersion == Exchange("version", Call("version", "", FALSE), version_cmd(conn))

SSet(x) ==
    Exchange(x, Call("set", "k", x = "set_noreply"),
             storage_cmd(conn, "set", "k", 0, 0, None, x = "set_noreply", "v"))

SDelete == Exchange("delete", Call("delete", "k", FALSE), delete_cmd(conn, "k", FALSE))

SIncr == Exchange("incr", Call("incr", "k", FALSE), incr_decr_cmd(conn, "incr", "k", 1, FALSE))

STouch == Exchange("touch", Call("touch", "k", FALSE), touch_cmd(conn, "k", 0, FALSE))

SFlushAll == Exchange("flush_all", Call("flush_all", "", FALSE), flush_all_cmd(conn, None, FALSE))

SAuth == Exchange("auth", Call("auth", "", FALSE), auth_cmd(conn, "u", "p"))

SGet(x) ==
    Exchange(x, Call("get", "k", FALSE), Pop(retrieval_cmd(conn, "get", None, << "k" >>)))

SGetMulti ==
    Exchange("get_multi", Call("get_multi", "k j", FALSE),
             retrieval_cmd(conn, "get", None, << "k", "j" >>))

SStats == Exchange("stats", Call("stats", "", FALSE), stats_cmd(conn, None))

SMe == Exchange("me", Call("me", "k", FALSE), me_cmd(conn, "k"))

SMn == Exchange("mn", Call("mn", "", FALSE), mn_cmd(conn))

SMg(x) == Exchange(x, Call("mg", "k", FALSE), mg_cmd(conn, "k", << >>))

SMs == Exchange("ms", Call("ms", "k", FALSE), ms_cmd(conn, "k", << >>, "v"))

SMd == Exchange("md", Call("md", "k", FALSE), md_cmd(conn, "k", << >>))

SMa == Exchange("ma", Call("ma", "k", FALSE), ma_cmd(conn, "k", << >>))

InitSession ==
    /\ \E session \in Sessions :
          /\ srv = session
          /\ conn = Stream(Concat([i \in 1..Len(session) |-> ResponseOf(session[i])]))
    /\ cmds = << >>
    /\ calls = << >>
    /\ ret = NoCall
    /\ shards = << >>

NextSession ==
    \/ SVersion
    \/ \E x \in {"set", "set_not_stored", "set_noreply"} : SSet(x)
    \/ SDelete
    \/ SIncr
    \/ STouch
    \/ SFlushAll
    \/ SAuth
    \/ \E x \in {"get_hit", "get_miss"} : SGet(x)
    \/ SGetMulti
    \/ SStats
    \/ SMe
    \/ SMn
    \/ \E x \in {"mg_va", "mg_en"} : SMg(x)
    \/ SMs
    \/ SMd
    \/ SMa

SpecSession == InitSession /\ [][NextSession]_vars

\* The value the method of exchange x returns for the answer ResponseOf(x)
ExpectedOf(x) ==
    CASE x = "version" -> "1.6"
      [] x \in {"set", "set_noreply", "delete", "touch"} -> TRUE
      [] x = "set_not_stored" -> FALSE
      [] x = "incr" -> Some(5)
      [] x \in {"flush_all", "auth", "mn"} -> "unit"
      [] x = "get_hit" -> Some([key |-> "k", flags |-> 0, cas_unique |-> None,
                                data_block |-> "END\r\n"])
      [] x = "get_miss" -> None
      [] x = "get_multi" -> << [key |-> "k", flags |-> 0, cas_unique |-> None, data_block |-> "v"],
                               [key |-> "j", flags |-> 0, cas_unique |-> None, data_block |-> ""] >>
      [] x = "stats" -> [n \in {"pid"} |-> "1"]
      [] x = "me" -> Some("k exp=0")
      [] x = "mg_va" -> [MgItem EXCEPT !.success = TRUE, !.cas = Some(7), !.data_block = Some("v")]
      [] x = "mg_en" -> MgItem
      [] x = "ms" -> [MsItem EXCEPT !.success = TRUE]
      [] x = "md" -> MdItem
      [] x = "ma" -> [MaItem EXCEPT !.success = TRUE, !.number = Some(5)]

\* The stream operations of the last call
CallIo == SubSeq(ret.after.io, Len(ret.before.io) + 1, Len(ret.after.io))

\* The answers to the exchanges after the first n of the session
Unanswered(n) == Concat([i \in 1..(Len(srv) - n) |-> ResponseOf(srv[n + i])])

\* C12: a call on a connection writes its whole command with one write and
\* flushes before it reads anything, and writes nothing after its first
\* read; when the answers of a session arrive back to back each call
\* returns the value of its own answer and leaves exactly the answers of
\* the later calls unread.
C12_WriteFlushThenOwnResponse ==
    ret.st # "None" =>
        /\ SubSeq(CallIo, 1, 2) = "wf"
        /\ \A i \in 3..Len(CallIo) : Char(CallIo, i) \in {"l", "x"}
        /\ EndsWith(Written, "\r\n")
        /\ StartsWith(Written, IF ret.c.op \in {"get_multi", "auth"}
                               THEN (IF ret.c.op = "auth" THEN "set " ELSE "get ")
                               ELSE ret.c.op)
        /\ ret.st = "Ok"
        /\ ret.val = ExpectedOf(srv[Len(calls)])
        /\ ret.after.rd = Unanswered(Len(calls))

\* A get whose data block is END CR LF was answered first and an mg with a
\* value after it, and the answers of both are consumed.
C12_Witness ==
    /\ Len(srv) = 2 /\ srv[1] = "get_hit" /\ srv[2] = "mg_va"
    /\ Len(calls) = 2 /\ ret.st = "Ok" /\ ret.c.op = "mg"
    /\ conn.rd = "" /\ conn.io = "wflxlwflx"

-----------------------------------------------------------------------------
(* The order of writes and reads of Pipeline::execute.                     *)

\* The command that the builder of the pipeline pushed for call c
CommandOf(c) ==
    CASE c.op = "cas" -> build_storage_cmd("cas", c.key, 0, 0, Some(1), c.noreply, "v")
      [] c.op = "delete" -> build_delete_cmd(c.key, c.noreply)
      [] c.op = "incr" -> build_incr_decr_cmd("incr", c.key, 1, c.noreply)
      [] c.op = "touch" -> build_touch_cmd(c.key, 0, c.noreply)
      [] c.op = "flush_all" -> build_flush_all_cmd(None, c.noreply)
      [] c.op = "cache_memlimit" -> build_cache_memlimit_cmd(1, c.noreply)
      [] c.op \in {"get", "get_multi"} -> "get " \o c.key \o "\r\n"
      [] c.op \in {"gets", "gets_multi"} -> "gets " \o c.key \o "\r\n"
      [] c.op \in {"gat", "gat_multi"} -> "gat 0 " \o c.key \o "\r\n"
      [] c.op \in {"gats", "gats_multi"} -> "gats 0 " \o c.key \o "\r\n"
      [] c.op \in StorageOps -> build_storage_cmd(c.op, c.key, 0, 0, None, c.noreply, "v")
      [] c.op = "auth" -> "set _ _ _ 3\r\nu p\r\n"
      [] c.op = "version" -> "version\r\n"
      [] c.op = "quit" -> "quit\r\n"
      [] c.op = "mg" -> "mg " \o c.key \o "\r\n"

\* C13: execute writes the commands of the pipeline, concatenated in the
\* order they were added, with one write, then flushes, and only then
\* reads: nothing is written or flushed after the first read.
C13_BatchWrittenBeforeReads ==
    (ret.c.op = "execute" /\ calls # << >>) =>
        /\ Written = Concat([i \in 1..Len(calls) |-> CommandOf(calls[i])])
        /\ SubSeq(CallIo, 1, 2) = "wf"
        /\ \A i \in 3..Len(CallIo) : Char(CallIo, i) \in {"|", "l", "x"}

\* A pipeline of a set and a get was executed: both commands were written
\* before the two answers were read.
C13_Witness ==
    /\ ret.c.op = "execute" /\ ret.st = "Ok" /\ Len(calls) = 2
    /\ calls[1].op = "set" /\ ~calls[1].noreply /\ calls[2].op = "get"
    /\ ret.after.wr = "set k 0 0 1\r\nv\r\nget k\r\n"
    /\ ret.after.io = "wf|l|lxl"

\* The bytes the last call took off the stream
Consumed == SubSeq(ret.before.rd, 1, Len(ret.before.rd) - Len(ret.after.rd))

\* C14: when execute returns the error of a decoder, the last thing it did
\* is the read of the line the error carries: the bytes it took off the
\* stream end with that line, whatever the server sent after it stays
\* unread, and no decoder was started for a later command.
C14_NoReadAfterError ==
    (ret.c.op = "execute" /\ ret.st = "Err") =>
        /\ ret.val.kind = "Other"
        /\ EndsWith(Consumed, ret.val.line)
        /\ ret.before.rd = Consumed \o ret.after.rd
        /\ Len(ReadsByCommand) <= Len(calls)
        /\ EndsWith(ret.after.io, "l")

\* The answer to the first of two commands was malformed: execute failed
\* at the first command and the answer to the second is still unread.
C14_Witness ==
    /\ ret.c.op = "execute" /\ ret.st = "Err" /\ Len(calls) = 2
    /\ ~srv[1].wf /\ srv[2].wf /\ srv[2].bytes # ""
    /\ Len(ReadsByCommand) = 1
    /\ ret.after.rd = srv[2].bytes

-----------------------------------------------------------------------------
(* One call on a stream that holds up to MaxLines lines, each ended by CR  *)
(* LF or by a bare LF, and then ends.                                      *)

\* The lines without their ending; an item is its header and data block.
LineBodies ==
    {"STORED", "NOT_STORED", "EXISTS", "NOT_FOUND", "ERROR", "END", "STAT pid 1",
     "VALUE k 0 1\r\nv", "HD", "5", "OK", "VERSION 1.6"}

LineEndings == {"\r\n", "\n"}

ResponseLines == [body : LineBodies, ending : LineEndings]

Responses == UNION {[1..n -> ResponseLines] : n \in 0..MaxLines}

\* The bytes of the lines from the i-th on
RECURSIVE BytesFrom(_, _)
BytesFrom(lines, i) ==
    IF i > Len(lines) THEN ""
    ELSE lines[i].body \o lines[i].ending \o BytesFrom(lines, i + 1)

\* Connection::set / add / replace / append / prepend / cas
DecodeStorage(op) ==
    Decode(Call(op, "k", FALSE),
           storage_cmd(conn, op, "k", 0, 0, IF op = "cas" THEN Some(1) ELSE None, FALSE, "v"))

DecodeStats == Decode(Call("stats", "", FALSE), stats_cmd(conn, None))

DecodeIncr == Decode(Call("incr", "k", FALSE), incr_decr_cmd(conn, "incr", "k", 1, FALSE))

DecodeVersion == Decode(Call("version", "", FALSE), version_cmd(conn))

DecodeDelete == Decode(Call("delete", "k", FALSE), delete_cmd(conn, "k", FALSE))

DecodeTouch == Decode(Call("touch", "k", FALSE), touch_cmd(conn, "k", 0, FALSE))

DecodeFlushAll == Decode(Call("flush_all", "", FALSE), flush_all_cmd(conn, None, FALSE))

DecodeAuth == Decode(Call("auth", "", FALSE), auth_cmd(conn, "u", "p"))

DecodeMn == Decode(Call("mn", "", FALSE), mn_cmd(conn))

DecodeMe == Decode(Call("me", "k", FALSE), me_cmd(conn, "k"))

InitLines ==
    /\ \E lines \in Responses : srv = lines /\ conn = Stream(BytesFrom(lines, 1))
    /\ cmds = << >>
    /\ calls = << >>
    /\ ret = NoCall
    /\ shards = << >>

NextLines ==
    \/ \E op \in StorageOps \cup {"cas"} : DecodeStorage(op)
    \/ DecodeStats
    \/ DecodeIncr
    \/ DecodeVersion
    \/ DecodeDelete
    \/ DecodeTouch
    \/ DecodeFlushAll
    \/ DecodeAuth
    \/ DecodeMn
    \/ DecodeMe
    \/ \E key \in DirectKeys : Get(key)
    \/ \E keys \in {<< "k" >>, << "k", "j" >>} : GetMulti(keys)
    \/ \E key \in DirectKeys : Mg(key, << >>)
    \/ \E key \in DirectKeys : Ms(key)
    \/ \E key \in DirectKeys : Md(key)
    \/ \E key \in DirectKeys : Ma(key)

SpecLines == InitLines /\ [][NextLines]_vars

\* C15: a call whose response starts with a line that ends with a bare LF
\* does not return Ok: no decoder takes such a line for a valid response.
C15_BareLfNotAccepted ==
    (/\ ret.st # "None" /\ srv # << >>
     /\ srv[1].ending = "\n" /\ ~StartsWith(srv[1].body, "VALUE"))
    => ret.st # "Ok"

\* The index of the first line from the i-th on that is not a STAT line,
\* or 0 when the stream ends before such a line
RECURSIVE FirstAfterStats(_, _)
FirstAfterStats(lines, i) ==
    IF i > Len(lines) THEN 0
    ELSE IF StartsWith(lines[i].body, "STAT ") THEN FirstAfterStats(lines, i + 1)
    ELSE i

\* C16: stats returns Ok only when the first line after the STAT lines is
\* END; when that line is anything else stats returns an error, and when
\* the stream ends before such a line stats does not return Ok.
C16_StatsOnlyAfterEnd ==
    ret.c.op = "stats" =>
        IF FirstAfterStats(srv, 1) = 0 THEN ret.st # "Ok"
        ELSE IF srv[FirstAfterStats(srv, 1)].body = "END" THEN ret.st = "Ok"
        ELSE ret.st = "Err"

\* The index of the first line from the i-th on that does not start a
\* VALUE item, or 0 when the stream ends before such a line
RECURSIVE FirstAfterItems(_, _)
FirstAfterItems(lines, i) ==
    IF i > Len(lines) THEN 0
    ELSE IF StartsWith(lines[i].body, "VALUE ") THEN FirstAfterItems(lines, i + 1)
    ELSE i

\* Every item of the response has its data block followed by CR LF.
ItemsFramed == \A i \in 1..Len(srv) : StartsWith(srv[i].body, "VALUE ") => srv[i].ending = "\r\n"

\* C17: a retrieval call returns Ok exactly when the line after the last
\* item is END CR LF; with any other line there, or with the end of the
\* stream, it returns the protocol error that carries that line (empty at
\* the end of the stream), and so no items.
C17_RetrievalEndsAtEnd ==
    (ret.c.op \in {"get", "get_multi"} /\ ItemsFramed) =>
        IF FirstAfterItems(srv, 1) = 0
        THEN ret.st = "Err" /\ ret.val = [kind |-> "Other", line |-> ""]
        ELSE IF srv[FirstAfterItems(srv, 1)] = [body |-> "END", ending |-> "\r\n"]
        THEN ret.st = "Ok"
        ELSE /\ ret.st = "Err"
             /\ ret.val = [kind |-> "Other",
                           line |-> FirstUnreadLine(BytesFrom(srv, FirstAfterItems(srv, 1)))]

\* get_multi read an item and then END with a bare LF, and failed with
\* that line.
C17_Witness ==
    /\ ret.c.op = "get_multi" /\ Len(srv) = 2
    /\ srv[1] = [body |-> "VALUE k 0 1\r\nv", ending |-> "\r\n"]
    /\ srv[2] = [body |-> "END", ending |-> "\n"]
    /\ ret.st = "Err" /\ ret.val.line = "END\n"

\* C18: each storage method returns true for the line STORED CR LF, false
\* for NOT_STORED, EXISTS and NOT_FOUND CR LF, and for every other first
\* line the error that carries it.
C18_StorageLines ==
    ret.c.op \in StorageOps \cup {"cas"} =>
        IF srv # << >> /\ srv[1] = [body |-> "STORED", ending |-> "\r\n"]
        THEN ret.st = "Ok" /\ ret.val = TRUE
        ELSE IF /\ srv # << >> /\ srv[1].ending = "\r\n"
                /\ srv[1].body \in {"NOT_STORED", "EXISTS", "NOT_FOUND"}
        THEN ret.st = "Ok" /\ ret.val = FALSE
        ELSE /\ ret.st = "Err"
             /\ ret.val = [kind |-> "Other", line |-> FirstUnreadLine(ret.before.rd)]

\* cas was answered EXISTS and returned false.
C18_Witness ==
    /\ ret.c.op = "cas" /\ srv # << >>
    /\ srv[1] = [body |-> "EXISTS", ending |-> "\r\n"]
    /\ ret.st = "Ok" /\ ret.val = FALSE

-----------------------------------------------------------------------------
(* The decoder execute picks for retrieval, storage and auth commands: a   *)
(* pipeline of these commands only.                                        *)

\* Pipeline::get / gets
PGetOne(op, key) == Push(Call(op, key, FALSE), build_retrieval_cmd(op, None, << key >>))

\* Pipeline::gat / gats
PGatOne(op, key) == Push(Call(op, key, FALSE), build_retrieval_cmd(op, Some(0), << key >>))

\* Pipeline::get_multi / gets_multi
PGetMany(op, keys) ==
    Push(Call(op \o "_multi", Join(keys, " "), FALSE), build_retrieval_cmd(op, None, keys))

\* Pipeline::gat_multi / gats_multi
PGatMany(op, keys) ==
    Push(Call(op \o "_multi", Join(keys, " "), FALSE), build_retrieval_cmd(op, Some(0), keys))

\* Pipeline::add / replace / append / prepend
PStore(op, key) ==
    Push(Call(op, key, FALSE), build_storage_cmd(op, key, 0, 0, None, FALSE, "v"))

PAuth == Push(Call("auth", "", FALSE), build_auth_cmd("u", "p"))

\* Keys without a space; "_" is the placeholder key of the auth command.
StoreKeys == {"k", "_"}

NextDispatch ==
    \/ \E op \in {"get", "gets"} : PGetOne(op, "k")
    \/ \E op \in {"gat", "gats"} : PGatOne(op, "k")
    \/ \E op \in {"get", "gets"}, keys \in {<< "k" >>, << "k", "j" >>} : PGetMany(op, keys)
    \/ \E op \in {"gat", "gats"}, keys \in {<< "k" >>, << "k", "j" >>} : PGatMany(op, keys)
    \/ \E key \in StoreKeys, noreply \in BOOLEAN : PSet(key, noreply)
    \/ \E op \in StorageOps \ {"set"} : PStore(op, "_")
    \/ PCas("_", FALSE)
    \/ PAuth
    \/ ServerReply
    \/ Execute

SpecDispatch == InitPipeline /\ [][NextDispatch]_vars

RetrievalOps == {"get", "gets", "gat", "gats"} \cup MultiOps

\* The number of spaces that makes a retrieval command a single-key one:
\* one for get and gets, two for gat and gats.
SingleKeySpaces(cmd) == IF StartsWith(cmd, "gat") THEN 2 ELSE 1

\* C19: in the result of execute, the value of a retrieval command is an
\* OptionItem when the encoded command has exactly one space (get, gets) or
\* exactly two (gat, gats), and a VecItem when it has more.
C19_RetrievalShapeBySpaces ==
    (ret.c.op = "execute" /\ ret.st = "Ok") =>
        \A i \in 1..Len(calls) :
            calls[i].op \in RetrievalOps =>
                /\ ret.val[i].tag =
                      (IF Count(CommandOf(calls[i]), " ") = SingleKeySpaces(CommandOf(calls[i]))
                       THEN "OptionItem" ELSE "VecItem")
                /\ ret.val[i].val = srv[i].val

\* gat_multi with two keys (three spaces) gave a list and gats with one
\* key (two spaces) an item.
C19_Witness ==
    /\ ret.c.op = "execute" /\ ret.st = "Ok" /\ Len(calls) = 2
    /\ calls[1] = Call("gat_multi", "k j", FALSE) /\ calls[2] = Call("gats", "k", FALSE)
    /\ ret.val[1].tag = "VecItem" /\ Len(ret.val[1].val) = 2
    /\ ret.val[2].tag = "OptionItem" /\ ret.val[2].val # None

\* C20: a command of the pipeline begins with "set _ _ _ " exactly when
\* the auth builder made it; execute decodes the answer to an auth command
\* with the auth decoder (Unit, and Ok only for STORED) and the answer to
\* every command of a storage builder with the storage decoder (Bool, true
\* for STORED, false for NOT_STORED).
C20_AuthOnlyForAuth ==
    /\ \A i \in 1..Len(cmds) : StartsWith(cmds[i], "set _ _ _ ") <=> calls[i].op = "auth"
    /\ (ret.c.op = "execute" /\ ret.st = "Ok") =>
          \A i \in 1..Len(calls) :
              /\ calls[i].op = "auth" =>
                    ret.val[i] = [tag |-> "Unit", val |-> "unit"] /\ srv[i].bytes = "STORED\r\n"
              /\ calls[i].op \in StorageOps \cup {"cas"} =>
                    ret.val[i] = [tag |-> "Bool", val |-> srv[i].bytes \in {"STORED\r\n", ""}]
    /\ (ret.c.op = "execute" /\ ret.st = "Err") => \E i \in 1..Len(calls) : ~srv[i].wf

\* A set on the placeholder key "_" answered NOT_STORED gave false, and
\* the auth after it, answered STORED, gave the unit.
C20_Witness ==
    /\ ret.c.op = "execute" /\ ret.st = "Ok" /\ Len(calls) = 2
    /\ calls[1] = Call("set", "_", FALSE) /\ calls[2].op = "auth"
    /\ srv[1].bytes = "NOT_STORED\r\n"
    /\ ret.val = << [tag |-> "Bool", val |-> FALSE], [tag |-> "Unit", val |-> "unit"] >>

-----------------------------------------------------------------------------
(* What a line left on the stream does to the calls that follow.           *)

\* The decoder of method op takes the line for a success.
TakenForSuccess(op, line) ==
    \/ op \in StorageOps \cup {"cas"} /\ line = "STORED\r\n"
    \/ op \in {"flush_all", "cache_memlimit"} /\ line = "OK\r\n"

\* C21: a call made with noreply returns Ok and takes nothing off the
\* stream, whatever the server has sent; a call that expects a reply takes
\* exactly the oldest unread line, be it the line sent for an earlier
\* noreply call, and succeeds or fails by that line.
C21_NoreplyLeavesLine ==
    (ret.st # "None" /\ ret.c.op \in NoreplyOps) =>
        IF ret.c.noreply
        THEN ret.st = "Ok" /\ Consumed = "" /\ CallIo = "wf"
        ELSE /\ Consumed = FirstUnreadLine(ret.before.rd)
             /\ CallIo = "wfl"
             /\ IF TakenForSuccess(ret.c.op, Consumed) THEN ret.st = "Ok"
                ELSE ret.st = "Err" /\ ret.val = [kind |-> "Other", line |-> Consumed]

\* A set with noreply succeeded, the server sent ERROR for it, and the
\* flush_all made after it failed with that line.
C21_Witness ==
    /\ Len(calls) = 2 /\ srv = << "ERROR\r\n" >>
    /\ calls[1] = Call("set", "k", TRUE) /\ calls[2] = Call("flush_all", "", FALSE)
    /\ ret.st = "Err" /\ ret.val.line = "ERROR\r\n"
    /\ conn.io = "wfwfl" /\ conn.rd = ""

-----------------------------------------------------------------------------
(* The block that follows a VA line.                                       *)

\* The length n that the VA line of the response declares
DeclaredLen == va_len(Split(srv[1].status, " ")).v

\* The number of bytes the call took from the stream
Taken == Len(ret.before.rd) - Len(ret.after.rd)

\* C22: a mg or ma call that decodes a response 'VA n' has consumed exactly
\* n + 2 bytes after the header line, and its payload is the first n of
\* them (for ma, read as an unsigned decimal integer).
C22_ValueBlockByLength ==
    (ret.st = "Ok" /\ ret.c.op \in {"mg", "ma"} /\ FirstToken = "VA") =>
        /\ Taken = Len(srv[1].line) + DeclaredLen + 2
        /\ ret.c.op = "mg" =>
              ret.val.data_block = Some(SubSeq(srv[1].payload, 1, DeclaredLen))
        /\ ret.c.op = "ma" =>
              ret.val.number = Some(ParseUnsigned(SubSeq(srv[1].payload, 1, DeclaredLen)).v)

-----------------------------------------------------------------------------
(* Retrieval of several keys: the request names the keys in one order, the *)
(* server answers with the items it found in an order of its own.          *)

\* The orders in which the request names the two keys
KeyOrders == {<< "k", "j" >>, << "j", "k" >>}

FoundSpecs ==
    [key : {"k", "j"}, flags : {0}, cas_unique : {None, Some(7)}, data : {"a", "bc"},
     term : {"\r\n"}]

FoundSeqs == UNION {[1..n -> FoundSpecs] : n \in 0..MaxItems}

InitMulti ==
    /\ \E items \in FoundSeqs :
          /\ conn = Stream(ItemsBytes(items) \o "END\r\n")
          /\ srv = items
    /\ cmds = << >>
    /\ calls = << >>
    /\ ret = NoCall
    /\ shards = << >>

\* Connection::gets_multi
GetsMulti(keys) ==
    Decode(Call("gets_multi", Join(keys, " "), FALSE), retrieval_cmd(conn, "gets", None, keys))

\* Connection::gat_multi
GatMulti(keys) ==
    Decode(Call("gat_multi", Join(keys, " "), FALSE), retrieval_cmd(conn, "gat", Some(0), keys))

NextMulti ==
    \/ \E keys \in KeyOrders : GetMulti(keys)
    \/ \E keys \in KeyOrders : GetsMulti(keys)
    \/ \E keys \in KeyOrders : GatMulti(keys)

SpecMulti == InitMulti /\ [][NextMulti]_vars

\* C23: a retrieval of several keys returns one item per VALUE block of the
\* response, in the order of the response, whatever the order of the keys
\* in the request.
C23_ItemsInResponseOrder ==
    (ret.st # "None" /\ ret.c.op \in MultiOps) =>
        /\ ret.st = "Ok"
        /\ Len(ret.val) = Len(srv)
        /\ \A i \in 1..Len(srv) : ret.val[i] = Returned(srv[i])

\* The request names k before j, the response holds j before k, and so
\* does the list returned.
C23_Witness ==
    /\ ret.st = "Ok" /\ ret.c.op = "get_multi" /\ ret.c.key = "k j"
    /\ ret.after.wr = "get k j\r\n"
    /\ Len(srv) = 2 /\ srv[1].key = "j" /\ srv[2].key = "k"
    /\ ret.val[1].key = "j" /\ ret.val[2].key = "k"

-----------------------------------------------------------------------------
(* The pipeline that holds no command.                                     *)

\* C24: execute on a pipeline that holds no command returns the empty list
\* and leaves the connection as it was: nothing written, nothing flushed,
\* nothing read.
C24_EmptyPipelineNoIo ==
    (ret.c.op = "execute" /\ calls = << >>) =>
        /\ ret.st = "Ok" /\ ret.val = << >>
        /\ ret.after = ret.before
        /\ conn = ret.before /\ conn.io = "" /\ conn.wr = ""

C24_Witness ==
    /\ ret.c.op = "execute" /\ ret.st = "Ok" /\ calls = << >> /\ cmds = << >>
    /\ ret.val = << >> /\ conn.io = ""

-----------------------------------------------------------------------------
(* Meta commands with flags: a mg, ms, md or ma call with a list of flags  *)
(* of the caller, answered by a HD line that carries one return flag.      *)

Flag(f, n, t) == [f |-> f, n |-> n, t |-> t]

\* The variants of MgFlag, MsFlag, MdFlag and MaFlag, each with one argument
MgFlags ==
    {Flag(f, 0, "") : f \in {"Base64Key", "ReturnCas", "ReturnFlags", "ReturnHit",
                             "ReturnKey", "ReturnLastAccess", "ReturnSize", "ReturnTtl",
                             "UnBump", "ReturnValue"}}
    \cup {Flag("Opaque", 0, "x")}
    \cup {Flag(f, 7, "") : f \in {"NewCas", "Autovivify", "RecacheTtl", "UpdateTtl"}}

MsFlags ==
    {Flag(f, 0, "") : f \in {"Base64Key", "ReturnCas", "Invalidate", "ReturnKey",
                             "ReturnSize"}}
    \cup {Flag("Opaque", 0, "x")}
    \cup {Flag(f, 7, "") : f \in {"CompareCas", "NewCas", "SetFlags", "Ttl", "Autovivify"}}
    \cup {Flag("Mode", 0, t) : t \in {"Add", "Append", "Prepend", "Replace", "Set"}}

MdFlags ==
    {Flag(f, 0, "") : f \in {"Base64Key", "Invalidate", "ReturnKey", "LeaveKey"}}
    \cup {Flag("Opaque", 0, "x")}
    \cup {Flag(f, 7, "") : f \in {"CompareCas", "NewCas", "UpdateTtl"}}

MaFlags ==
    {Flag(f, 0, "") : f \in {"Base64Key", "ReturnTtl", "ReturnCas", "ReturnValue",
                             "ReturnKey"}}
    \cup {Flag("Opaque", 0, "x")}
    \cup {Flag(f, 7, "") : f \in {"CompareCas", "NewCas", "AutoCreate", "InitValue",
                                   "DeltaApply", "UpdateTtl"}}
    \cup {Flag("Mode", 0, t) : t \in {"Incr", "Decr"}}

FlagsOf(verb) ==
    CASE verb = "mg" -> MgFlags
      [] verb = "ms" -> MsFlags
      [] verb = "md" -> MdFlags
      [] verb = "ma" -> MaFlags

FlagSeqs(verb) == UNION {[1..n -> FlagsOf(verb)] : n \in 0..MaxFlags}

\* The first letters of the flag tokens of the meta protocol, and one that
\* is none
ReturnedLetters ==
    {"b", "c", "f", "h", "k", "l", "O", "s", "t", "u", "v", "x", "C", "D", "E", "F",
     "I", "J", "M", "N", "R", "T", "W", "X", "Z", "q"}

InitFlags ==
    /\ \E letter \in ReturnedLetters :
          /\ conn = Stream(ResponseLine("HD", << letter \o "1" >>))
          /\ srv = << [status |-> "HD", tokens |-> << letter \o "1" >>, payload |-> "",
                       line |-> ResponseLine("HD", << letter \o "1" >>), letter |-> letter] >>
    /\ cmds = << >>
    /\ calls = << >>
    /\ ret = NoCall
    /\ shards = << >>

\* The call of a meta method on key k with the flags of the caller
MetaCall(verb, flags) == [op |-> verb, key |-> "k", noreply |-> FALSE, flags |-> flags]

MgWith(flags) == Decode(MetaCall("mg", flags), mg_cmd(conn, "k", flags))

MsWith(flags) == Decode(MetaCall("ms", flags), ms_cmd(conn, "k", flags, "v"))

MdWith(flags) == Decode(MetaCall("md", flags), md_cmd(conn, "k", flags))

MaWith(flags) == Decode(MetaCall("ma", flags), ma_cmd(conn, "k", flags))

NextFlags ==
    \/ calls = << >> /\ \E flags \in FlagSeqs("mg") : MgWith(flags)
    \/ calls = << >> /\ \E flags \in FlagSeqs("ms") : MsWith(flags)
    \/ calls = << >> /\ \E flags \in FlagSeqs("md") : MdWith(flags)
    \/ calls = << >> /\ \E flags \in FlagSeqs("ma") : MaWith(flags)

SpecFlags == InitFlags /\ [][NextFlags]_vars

\* The flag letters the encoder of verb can emit: the first letter of the
\* token of each variant.
EmittedLetters(verb) == {Char(build_flags(verb, << x >>), 2) : x \in FlagsOf(verb)}

\* The response of the state is decoded by a branch of the decoder: its one
\* flag token has a well-formed argument, so the call fails only for want
\* of a branch.
HasBranch == ret.st = "Ok"

\* C25 as the specification states it: the decoder of a verb has a branch
\* for a flag letter exactly when the encoder of that verb can emit it.
C25_EncoderDecoderSymmetric ==
    (ret.st # "None" /\ ret.c.op \in MetaOps) =>
        (HasBranch <=> srv[1].letter \in EmittedLetters(ret.c.op))

\* The flags a request can carry that the server returns in its response
EchoedLetters == {"b", "c", "f", "h", "k", "l", "O", "s", "t"}

\* The flags of a mg response that no request asks for
ServerLetters(verb) == IF verb = "mg" THEN {"W", "X", "Z"} ELSE {}

\* C25: the decoder of a verb has a branch for a flag letter exactly when
\* the encoder of that verb can emit it and the server returns it (b c f h
\* k l O s t), or when it is one of W, X, Z in a mg response; the letters
\* the encoder emits as request modifiers only have no branch.
C25_BranchesForEchoedFlags ==
    (ret.st # "None" /\ ret.c.op \in MetaOps) =>
        (HasBranch <=>
            srv[1].letter \in (EmittedLetters(ret.c.op) \cap EchoedLetters)
                               \cup ServerLetters(ret.c.op))

\* A ma call that asked for the ttl and got it, and a mg call that sent E
\* and would find no branch for it.
C25_Witness ==
    /\ ret.c.op = "ma" /\ ret.st = "Ok" /\ srv[1].letter = "t"
    /\ ret.c.flags = << Flag("ReturnTtl", 0, "") >>
    /\ ret.after.wr = "ma k t\r\n" /\ ret.val.ttl = Some(1)
    /\ "E" \in EmittedLetters("mg") /\ "t" \in EmittedLetters("ma")

\* The tokens of the command line written by the call
LineTokens == Split(FirstLine(ret.after.wr), " ")

\* The tokens before the flags: the verb, the key, and for ms the byte count
Prefix(verb) == IF verb = "ms" THEN << "ms", "k", "1" >> ELSE << verb, "k" >>

\* What follows the command line: for ms the data block
Block(verb) == IF verb = "ms" THEN "v\r\n" ELSE ""

\* C26: the command line of a meta call is the verb, the key, a byte count
\* for ms only, and then one token per flag of the caller in the caller's
\* order, each after a single space: nothing sorted, merged or dropped.
C26_FlagsInCallerOrder ==
    (ret.st # "None" /\ ret.c.op \in MetaOps) =>
        /\ ret.after.wr = FirstLine(ret.after.wr) \o "\r\n" \o Block(ret.c.op)
        /\ Len(LineTokens) = Len(Prefix(ret.c.op)) + Len(ret.c.flags)
        /\ SubSeq(LineTokens, 1, Len(Prefix(ret.c.op))) = Prefix(ret.c.op)
        /\ \A i \in 1..Len(ret.c.flags) :
              " " \o LineTokens[Len(Prefix(ret.c.op)) + i]
                  = build_flags(ret.c.op, << ret.c.flags[i] >>)

\* A ms call whose flags repeat and are not in alphabetical order.
C26_Witness ==
    /\ ret.c.op = "ms"
    /\ ret.c.flags = << Flag("ReturnKey", 0, ""), Flag("ReturnKey", 0, "") >>
    /\ ret.after.wr = "ms k 1 k k\r\nv\r\n"

-----------------------------------------------------------------------------
(* Storage commands with their arguments: one call of set, add, replace,   *)
(* append, prepend or cas, answered by one line.                           *)

StoreFlags == {0, 5}

StoreExptimes == {0, -1, 10}

StoreCas == {0, 7}

\* Data blocks: empty, with a space, with a line ending inside
StoreData == {"", "v", "a b", "x\r\ny"}

InitStore ==
    /\ \E line \in {"STORED\r\n", "NOT_STORED\r\n"} :
          conn = Stream(line) /\ srv = << line >>
    /\ cmds = << >>
    /\ calls = << >>
    /\ ret = NoCall
    /\ shards = << >>

\* The call of a storage method on key k with its arguments
StoreCall(op, flags, exptime, cas_unique, noreply, data_block) ==
    [op |-> op, key |-> "k", noreply |-> noreply, flags |-> flags, exptime |-> exptime,
     cas_unique |-> cas_unique, data_block |-> data_block]

\* Connection::set, add, replace, append, prepend
StoreWith(op, flags, exptime, noreply, data_block) ==
    Decode(StoreCall(op, flags, exptime, None, noreply, data_block),
           storage_cmd(conn, op, "k", flags, exptime, None, noreply, data_block))

\* Connection::cas
CasWith(flags, exptime, cas_unique, noreply, data_block) ==
    Decode(StoreCall("cas", flags, exptime, Some(cas_unique), noreply, data_block),
           storage_cmd(conn, "cas", "k", flags, exptime, Some(cas_unique), noreply,
                       data_block))

NextStore ==
    \/ calls = << >> /\ \E op \in StorageOps, flags \in StoreFlags, exptime \in StoreExptimes,
                            noreply \in BOOLEAN, data_block \in StoreData :
                           StoreWith(op, flags, exptime, noreply, data_block)
    \/ calls = << >> /\ \E flags \in StoreFlags, exptime \in StoreExptimes,
                            cas_unique \in StoreCas, noreply \in BOOLEAN,
                            data_block \in StoreData :
                           CasWith(flags, exptime, cas_unique, noreply, data_block)

SpecStore == InitStore /\ [][NextStore]_vars

\* The command line of the storage call, without its CR LF: what was
\* written before the data block and the two line endings.
StoreLine == SubSeq(ret.after.wr, 1, Len(ret.after.wr) - Len(ret.c.data_block) - 4)

StoreTokens == Split(StoreLine, " ")

\* The number of tokens after the byte count
Extras == (IF ret.c.cas_unique # None THEN 1 ELSE 0) + (IF ret.c.noreply THEN 1 ELSE 0)

\* C27: a storage call writes 'verb key flags exptime bytecount', then the
\* cas value only when one is given (which is for the cas verb), then
\* 'noreply' only when requested, CR LF, the data and CR LF; the byte count
\* is the length of the data.
C27_StorageCommandLayout ==
    (ret.st # "None" /\ ret.c.op \in StorageOps \cup {"cas"}) =>
        /\ ret.after.wr = StoreLine \o "\r\n" \o ret.c.data_block \o "\r\n"
        /\ Len(StoreTokens) = 5 + Extras
        /\ StoreTokens[1] = ret.c.op /\ StoreTokens[2] = ret.c.key
        /\ StoreTokens[3] = to_string(ret.c.flags)
        /\ StoreTokens[4] = to_string(ret.c.exptime)
        /\ ParseUnsigned(StoreTokens[5]) = [ok |-> TRUE, v |-> Len(ret.c.data_block)]
        /\ (ret.c.cas_unique # None) = (ret.c.op = "cas")
        /\ ret.c.cas_unique # None => StoreTokens[6] = to_string(ret.c.cas_unique[1])
        /\ ret.c.noreply => StoreTokens[5 + Extras] = "noreply"

\* A cas with noreply and a data block that holds a line ending.
C27_Witness ==
    /\ ret.c.op = "cas" /\ ret.c.noreply /\ ret.c.cas_unique = Some(7)
    /\ ret.c.exptime = -1 /\ ret.c.flags = 5 /\ ret.c.data_block = "x\r\ny"
    /\ ret.after.wr = "cas k 5 -1 4 7 noreply\r\nx\r\ny\r\n"

-----------------------------------------------------------------------------
(* The response to incr and decr: one line, and what may follow it.        *)

\* The line without its CR LF: a miss, numbers, and lines that are neither
CounterBodies ==
    {"NOT_FOUND", "0", "5", "12", "+5", "5 ", "-5", " 5", "5x", "x", "", "NOT_FOUND ",
     "STORED", "ERROR"}

\* The bytes that follow the line on the stream
CounterTails == {"", "7\r\n", "NOT_FOUND\r\n"}

InitCounter ==
    /\ \E body \in CounterBodies, tail \in CounterTails :
          /\ conn = Stream(body \o "\r\n" \o tail)
          /\ srv = << [body |-> body, line |-> body \o "\r\n", tail |-> tail] >>
    /\ cmds = << >>
    /\ calls = << >>
    /\ ret = NoCall
    /\ shards = << >>

\* Connection::incr
Incr(value) == Decode(Call("incr", "k", FALSE), incr_decr_cmd(conn, "incr", "k", value, FALSE))

\* Connection::decr
Decr(value) == Decode(Call("decr", "k", FALSE), incr_decr_cmd(conn, "decr", "k", value, FALSE))

NextCounter ==
    \/ calls = << >> /\ \E value \in {1, 2} : Incr(value)
    \/ calls = << >> /\ \E value \in {1, 2} : Decr(value)

SpecCounter == InitCounter /\ [][NextCounter]_vars

\* The unsigned integer a line holds: decimal digits (str::parse also takes
\* a leading +), with nothing but white space after them.
Holds(body) ==
    CASE body \in {"5", "+5", "5 "} -> Some(5)
      [] body = "0"  -> Some(0)
      [] body = "12" -> Some(12)
      [] OTHER       -> None

\* C28: incr and decr return None for the line NOT_FOUND, Some(v) for a
\* line that holds the unsigned integer v, and for every other line the
\* error that carries the line; what follows the line stays on the stream.
C28_CounterResponse ==
    (ret.st # "None" /\ ret.c.op \in {"incr", "decr"} /\ Len(srv) = 1) =>
        /\ ret.after.rd = srv[1].tail
        /\ IF srv[1].body = "NOT_FOUND" THEN ret.st = "Ok" /\ ret.val = None
           ELSE IF Holds(srv[1].body) # None
           THEN ret.st = "Ok" /\ ret.val = Holds(srv[1].body)
           ELSE ret.st = "Err" /\ ret.val = [kind |-> "Other", line |-> srv[1].line]

\* A decr answered with a negative number: an error, the next line unread.
C28_Witness ==
    /\ ret.c.op = "decr" /\ srv[1].body = "-5" /\ srv[1].tail = "7\r\n"
    /\ ret.st = "Err" /\ ret.val.line = "-5\r\n" /\ conn.rd = "7\r\n"

-----------------------------------------------------------------------------
(* The connection list of the router.                                      *)

\* Connection b is connection a after some more I/O: what it has written
\* and done so far is kept, and what it has left to read is what a had.
SameConnection(a, b) ==
    /\ StartsWith(b.wr, a.wr)
    /\ StartsWith(b.io, a.io)
    /\ EndsWith(a.rd, b.rd)

\* C29: no call on the router changes its list of connections: after a
\* call, failed or not, the list has the same length and holds the same
\* connections at the same positions.
C29_ConnectionListFixed ==
    [][/\ Len(shards') = Len(shards)
       /\ \A j \in 1..Len(shards) : SameConnection(shards[j], shards'[j])]_vars

\* Two calls on a router with three connections, the second failed; the
\* list still has three connections, the first of them the one used.
C29_Witness ==
    /\ Len(calls) = 2 /\ ret.st = "Err" /\ ret.c.op = "delete"
    /\ Len(ret.before) = 3 /\ Len(shards) = 3
    /\ ret.before[1].io # "" /\ StartsWith(shards[1].io, ret.before[1].io)
    /\ shards[2].io = "" /\ shards[3].io = ""

-----------------------------------------------------------------------------
(* The cas value of an item.                                               *)

\* The tokens of the VALUE header the server sent for the i-th item
HeaderTokens(i) == Split(FirstLine(ItemBytes(srv[i])), " ")

\* The item of the result that was decoded from the i-th item sent: a
\* retrieval of several keys returns them all, one of a single key the last.
Decoded(i) == IF ret.c.op = "get_multi" THEN ret.val[i] ELSE ret.val[1]

DecodedItems == IF ret.c.op = "get_multi" THEN 1..Len(srv) ELSE {Len(srv)} \ {0}

\* C30: the cas_unique of a returned item is Some (of the number in the
\* fifth token) exactly when the VALUE header of the item has a fifth
\* token, and None when the header has four.
C30_CasIffFifthToken ==
    (ret.st = "Ok" /\ ret.c.op \in {"get", "gets", "get_multi"}) =>
        \A i \in DecodedItems :
            /\ Len(HeaderTokens(i)) \in {4, 5}
            /\ (Decoded(i).cas_unique # None) <=> (Len(HeaderTokens(i)) = 5)
            /\ (Decoded(i).cas_unique = None) <=> (Len(HeaderTokens(i)) = 4)
            /\ Len(HeaderTokens(i)) = 5 =>
                  Decoded(i).cas_unique = Some(ParseUnsigned(HeaderTokens(i)[5]).v)

\* A get_multi whose first item came with a cas value and whose second
\* came without.
C30_Witness ==
    /\ ret.st = "Ok" /\ ret.c.op = "get_multi" /\ Len(srv) = 2
    /\ HeaderTokens(1) = << "VALUE", "k", "0", "1", "7" >>
    /\ HeaderTokens(2) = << "VALUE", "k", "0", "1" >>
    /\ ret.val[1].cas_unique = Some(7) /\ ret.val[2].cas_unique = None

-----------------------------------------------------------------------------
(* The dumps of the LRU crawler: lines until a sentinel.                   *)

\* LruCrawlerMetadumpArg / LruCrawlerMgdumpArg: Classids(ids), All, Hash
DumpArgs == {[kind |-> "Classids", ids |-> << 1, 2 >>], [kind |-> "All", ids |-> << >>],
             [kind |-> "Hash", ids |-> << >>]}

RECURSIVE JoinIds(_)
JoinIds(ids) ==
    IF Len(ids) = 0 THEN ""
    ELSE IF Len(ids) = 1 THEN to_string(ids[1])
    ELSE to_string(ids[1]) \o "," \o JoinIds(Tail(ids))

dump_arg(arg) ==
    CASE arg.kind = "Classids" -> JoinIds(arg.ids)
      [] arg.kind = "All"      -> "all"
      [] arg.kind = "Hash"     -> "hash"

build_lru_clawler_metadump_cmd(arg) == "lru_crawler metadump " \o dump_arg(arg) \o "\r\n"

build_lru_clawler_mgdump_cmd(arg) == "lru_crawler mgdump " \o dump_arg(arg) \o "\r\n"

lru_crawler_metadump_cmd(s, arg) ==
    parse_lru_crawler_metadump_rp(Send(s, build_lru_clawler_metadump_cmd(arg)))

lru_crawler_mgdump_cmd(s, arg) ==
    parse_lru_crawler_mgdump_rp(Send(s, build_lru_clawler_mgdump_cmd(arg)))

\* The lines of a dump without their CR LF: entries of both dumps, the two
\* sentinels, and lines that are neither
DumpBodies == {"key=a exp=-1", "key=b", "mg a", "mg b c", "END", "EN", "ERROR", "keyx", "mg"}

DumpLines == [body : DumpBodies, ending : {"\r\n"}]

\* What the server sent before the stream ended: up to MaxLines lines
Dumps == UNION {[1..n -> DumpLines] : n \in 0..MaxLines}

InitDump ==
    /\ \E lines \in Dumps : srv = lines /\ conn = Stream(BytesFrom(lines, 1))
    /\ cmds = << >>
    /\ calls = << >>
    /\ ret = NoCall
    /\ shards = << >>

\* Connection::lru_crawler_metadump
Metadump(arg) ==
    Decode(Call("lru_crawler_metadump", "", FALSE), lru_crawler_metadump_cmd(conn, arg))

\* Connection::lru_crawler_mgdump
Mgdump(arg) ==
    Decode(Call("lru_crawler_mgdump", "", FALSE), lru_crawler_mgdump_cmd(conn, arg))

NextDump ==
    \/ calls = << >> /\ \E arg \in DumpArgs : Metadump(arg)
    \/ calls = << >> /\ \E arg \in DumpArgs : Mgdump(arg)

SpecDump == InitDump /\ [][NextDump]_vars

\* What the dump of op collects from the line: the line itself for
\* metadump, the key for mgdump; None for a line that is no entry of op.
Entry(op, body) ==
    IF op = "lru_crawler_metadump"
    THEN (IF body \in {"key=a exp=-1", "key=b"} THEN Some(body) ELSE None)
    ELSE (CASE body = "mg a"   -> Some("a")
            [] body = "mg b c" -> Some("b")
            [] OTHER           -> None)

Sentinel(op) == IF op = "lru_crawler_metadump" THEN "END" ELSE "EN"

\* The index of the first line from i on that is no entry of op: Len(srv) + 1
\* when the stream ends first.
RECURSIVE FirstOther(_, _)
FirstOther(op, i) ==
    IF i > Len(srv) \/ Entry(op, srv[i].body) = None THEN i ELSE FirstOther(op, i + 1)

Entries(op, n) == [i \in 1..n |-> Entry(op, srv[i].body)[1]]

\* The outcome of a dump whose first line that is no entry is the i-th
DumpEndsAt(op, i) ==
    /\ ret.after.rd = BytesFrom(srv, i + 1)
    /\ IF i > Len(srv)
       THEN ret.st = "Err" /\ ret.val = [kind |-> "Other", line |-> ""]
       ELSE IF srv[i].body = Sentinel(op)
       THEN ret.st = "Ok" /\ ret.val = Entries(op, i - 1)
       ELSE ret.st = "Err" /\ ret.val = [kind |-> "Other", line |-> srv[i].body \o "\r\n"]

-----------------------------------------------------------------------------
(* The one-line responses to mn and me.                                    *)

\* The line without its CR LF
SentinelBodies ==
    {"MN", "EN", "ME k exp=-1 la=3", "ME k", "ME", "MEX k", "MN ", "EN x", "MNX", "ERROR",
     "", "me k"}

SentinelTails == {"", "MN\r\n", "EN\r\n"}

InitSentinel ==
    /\ \E body \in SentinelBodies, tail \in SentinelTails :
          /\ conn = Stream(body \o "\r\n" \o tail)
          /\ srv = << [body |-> body, line |-> body \o "\r\n", tail |-> tail] >>
    /\ cmds = << >>
    /\ calls = << >>
    /\ ret = NoCall
    /\ shards = << >>

\* Connection::mn
Mn == Decode(Call("mn", "", FALSE), mn_cmd(conn))

\* Connection::me
Me(key) == Decode(Call("me", key, FALSE), me_cmd(conn, key))

NextSentinel ==
    \/ Mn
    \/ \E key \in DirectKeys : Me(key)

SpecSentinel == InitSentinel /\ [][NextSentinel]_vars

\* The call failed with the protocol error that carries the line.
FailedWithLine == ret.st = "Err" /\ ret.val = [kind |-> "Other", line |-> srv[1].line]

\* The rest of a line after its first token ME and the space
AfterMe(body) ==
    CASE body = "ME k exp=-1 la=3" -> "k exp=-1 la=3"
      [] body = "ME k"             -> "k"

\* C32: mn succeeds on the line MN and fails with the line on every other;
\* me returns None on the line EN, Some(the rest of the line) on a line
\* whose first token is ME, and fails with the line on every other.  (Of
\* the line that is ME alone, with no rest, nothing is said.)
C32_SentinelLines ==
    (ret.st # "None" /\ ret.c.op \in {"mn", "me"} /\ srv[1].body # "ME") =>
        IF ret.c.op = "mn"
        THEN IF srv[1].body = "MN" THEN ret.st = "Ok" ELSE FailedWithLine
        ELSE IF srv[1].body = "EN" THEN ret.st = "Ok" /\ ret.val = None
        ELSE IF Split(srv[1].body, " ")[1] = "ME"
        THEN ret.st = "Ok" /\ ret.val = Some(AfterMe(srv[1].body))
        ELSE FailedWithLine

-----------------------------------------------------------------------------
(* Pipelines that hold quit and shutdown among commands that are answered. *)

\* Pipeline::shutdown
PShutdown(graceful) == Push(Call("shutdown", "", FALSE), build_shutdown_cmd(graceful))

NextQuit ==
    \/ PQuit
    \/ \E graceful \in BOOLEAN : PShutdown(graceful)
    \/ PVersion
    \/ \E noreply \in BOOLEAN : PSet("k", noreply)
    \/ PGet("k")
    \/ \E noreply \in BOOLEAN : PFlushAll(noreply)
    \/ ServerReply
    \/ Execute

SpecQuit == InitPipeline /\ [][NextQuit]_vars

Unanswerable == {"quit", "shutdown"}

\* C33: execute reads nothing for a quit or a shutdown of the pipeline and
\* gives Unit for it, so that when the server answered the other commands
\* in order, each of them gets its own response.
C33_QuitReadsNothing ==
    ret.c.op = "execute" =>
        /\ \A i \in 1..Len(ReadsByCommand) :
              calls[i].op \in Unanswerable => ReadsByCommand[i] = ""
        /\ AllWellFormed =>
              /\ ret.st = "Ok" /\ Len(ret.val) = Len(calls)
              /\ ret.after.rd = ""
              /\ \A i \in 1..Len(calls) :
                    /\ ret.val[i].tag = srv[i].tag /\ ret.val[i].val = srv[i].val
                    /\ calls[i].op \in Unanswerable =>
                          ret.val[i] = [tag |-> "Unit", val |-> "unit"]

\* A shutdown followed by a version: the one line of the stream is the
\* response to version.
C33_Witness ==
    /\ ret.c.op = "execute" /\ ret.st = "Ok" /\ Len(calls) = 2
    /\ calls[1].op = "shutdown" /\ calls[2].op = "version"
    /\ ret.before.rd # "" /\ ret.after.rd = ""
    /\ ret.val[1].tag = "Unit" /\ ret.val[2].tag = "String"
    /\ ReadsByCommand = << "", "l" >>

-----------------------------------------------------------------------------
(* One command in a pipeline: every builder of Pipeline, and the decoder   *)
(* execute picks for the command it made.                                  *)

build_slabs_automove_cmd(arg) ==
    "slabs automove "
        \o to_string(CASE arg = "Zero" -> 0 [] arg = "One" -> 1 [] arg = "Two" -> 2)
        \o "\r\n"

build_lru_clawler_sleep_cmd(microseconds) ==
    "lru_crawler sleep " \o to_string(microseconds) \o "\r\n"

build_lru_crawler_tocrawl_cmd(arg) == "lru_crawler tocrawl " \o to_string(arg) \o "\r\n"

\* LruCrawlerCrawlArg: Classids(ids), All
build_lru_clawler_crawl_cmd(arg) ==
    "lru_crawler crawl " \o (IF arg.kind = "Classids" THEN JoinIds(arg.ids) ELSE "all")
        \o "\r\n"

build_slabs_reassign_cmd(source_class, dest_class) ==
    "slabs reassign " \o to_string(source_class) \o " " \o to_string(dest_class) \o "\r\n"

\* Display of an f32 given in tenths
F32ToString(tenths) ==
    IF tenths % 10 = 0 THEN to_string(tenths \div 10)
    ELSE to_string(tenths \div 10) \o "." \o to_string(tenths % 10)

\* LruArg: Tune { .. }, Mode(Flat | Segmented), TempTtl(ttl)
build_lru_cmd(arg) ==
    CASE arg.kind = "Tune" ->
            "lru tune " \o to_string(arg.percent_hot) \o " " \o to_string(arg.percent_warm)
                \o " " \o F32ToString(arg.max_hot_factor)
                \o " " \o F32ToString(arg.max_warm_factor) \o "\r\n"
      [] arg.kind = "Mode" ->
            (IF arg.mode = "Flat" THEN "lru mode flat\r\n" ELSE "lru mode segmented\r\n")
      [] arg.kind = "TempTtl" -> "lru temp_ttl " \o to_string(arg.ttl) \o "\r\n"

slabs_automove_cmd(s, arg) == parse_ok_rp(Send(s, build_slabs_automove_cmd(arg)), FALSE)

lru_crawler_cmd(s, arg) == parse_ok_rp(Send(s, build_lru_crawler_cmd(arg)), FALSE)

lru_crawler_sleep_cmd(s, microseconds) ==
    parse_ok_rp(Send(s, build_lru_clawler_sleep_cmd(microseconds)), FALSE)

lru_crawler_tocrawl_cmd(s, arg) ==
    parse_ok_rp(Send(s, build_lru_crawler_tocrawl_cmd(arg)), FALSE)

lru_crawler_crawl_cmd(s, arg) ==
    parse_ok_rp(Send(s, build_lru_clawler_crawl_cmd(arg)), FALSE)

slabs_reassign_cmd(s, source_class, dest_class) ==
    parse_ok_rp(Send(s, build_slabs_reassign_cmd(source_class, dest_class)), FALSE)

lru_cmd(s, arg) == parse_ok_rp(Send(s, build_lru_cmd(arg)), FALSE)

quit_cmd(s) == Ok("unit", Send(s, build_quit_cmd))

shutdown_cmd(s, graceful) == Ok("unit", Send(s, build_shutdown_cmd(graceful)))

\* A call of a builder: n picks the arguments that are no key (the number
\* of keys of a *_multi call, the variant of an argument enum, the flags of
\* a meta command).
Solo(op, key, noreply, n) == [op |-> op, key |-> key, noreply |-> noreply, n |-> n]

\* Keys without a space or a line break
SoloKeys == {"k", "_", "noreply", ""}

StatsArgs == << None, Some("settings"), Some("items"), Some("sizes"), Some("slabs"),
                Some("conns") >>

SlabsAutomoveArgs == << "Zero", "One", "Two" >>

LruCrawlerArgs == << "Enable", "Disable" >>

CrawlArgs == << [kind |-> "Classids", ids |-> << 1, 2 >>], [kind |-> "All", ids |-> << >>],
                [kind |-> "Hash", ids |-> << >>] >>

LruArgs ==
    << [kind |-> "Tune", percent_hot |-> 20, percent_warm |-> 40, max_hot_factor |-> 2,
        max_warm_factor |-> 20, mode |-> "", ttl |-> 0],
       [kind |-> "Mode", percent_hot |-> 0, percent_warm |-> 0, max_hot_factor |-> 0,
        max_warm_factor |-> 0, mode |-> "Flat", ttl |-> 0],
       [kind |-> "Mode", percent_hot |-> 0, percent_warm |-> 0, max_hot_factor |-> 0,
        max_warm_factor |-> 0, mode |-> "Segmented", ttl |-> 0],
       [kind |-> "TempTtl", percent_hot |-> 0, percent_warm |-> 0, max_hot_factor |-> 0,
        max_warm_factor |-> 0, mode |-> "", ttl |-> -1] >>

\* The flags of a meta call: none, or one that asks for something
SoloFlags(verb) ==
    CASE verb = "mg" -> << << >>, << Flag("ReturnValue", 0, "") >> >>
      [] verb = "ms" -> << << >>, << Flag("Mode", 0, "Set") >> >>
      [] verb = "md" -> << << >>, << Flag("Invalidate", 0, "") >> >>
      [] verb = "ma" -> << << >>, << Flag("ReturnValue", 0, "") >> >>

\* The keys of a *_multi call: n times the key
KeysOf(c) == [i \in 1..c.n |-> c.key]

NameOf(op) == SubSeq(op, 1, Len(op) - Len("_multi"))

\* Pipeline::<op>: the command the builder pushes
Encoded(c) ==
    CASE c.op \in StorageOps -> build_storage_cmd(c.op, c.key, 0, 0, None, c.noreply, "v")
      [] c.op = "cas" -> build_storage_cmd("cas", c.key, 0, 0, Some(c.n), c.noreply, "v")
      [] c.op = "auth" -> build_auth_cmd(c.key, "p")
      [] c.op = "version" -> build_version_cmd
      [] c.op = "quit" -> build_quit_cmd
      [] c.op = "shutdown" -> build_shutdown_cmd(c.n = 1)
      [] c.op = "cache_memlimit" -> build_cache_memlimit_cmd(c.n, c.noreply)
      [] c.op = "flush_all" ->
            build_flush_all_cmd(IF c.n = 0 THEN None ELSE Some(c.n), c.noreply)
      [] c.op = "delete" -> build_delete_cmd(c.key, c.noreply)
      [] c.op \in {"incr", "decr"} -> build_incr_decr_cmd(c.op, c.key, c.n, c.noreply)
      [] c.op = "touch" -> build_touch_cmd(c.key, c.n, c.noreply)
      [] c.op \in {"get", "gets"} -> build_retrieval_cmd(c.op, None, << c.key >>)
      [] c.op \in {"gat", "gats"} -> build_retrieval_cmd(c.op, Some(0), << c.key >>)
      [] c.op \in {"get_multi", "gets_multi"} ->
            build_retrieval_cmd(NameOf(c.op), None, KeysOf(c))
      [] c.op \in {"gat_multi", "gats_multi"} ->
            build_retrieval_cmd(NameOf(c.op), Some(0), KeysOf(c))
      [] c.op = "stats" -> build_stats_cmd(StatsArgs[c.n])
      [] c.op = "slabs_automove" -> build_slabs_automove_cmd(SlabsAutomoveArgs[c.n])
      [] c.op = "lru_crawler" -> build_lru_crawler_cmd(LruCrawlerArgs[c.n])
      [] c.op = "lru_crawler_sleep" -> build_lru_clawler_sleep_cmd(c.n)
      [] c.op = "lru_crawler_tocrawl" -> build_lru_crawler_tocrawl_cmd(c.n)
      [] c.op = "lru_crawler_crawl" -> build_lru_clawler_crawl_cmd(CrawlArgs[c.n])
      [] c.op = "slabs_reassign" -> build_slabs_reassign_cmd(c.n, c.n + 1)
      [] c.op = "lru_crawler_metadump" -> build_lru_clawler_metadump_cmd(CrawlArgs[c.n])
      [] c.op = "lru_crawler_mgdump" -> build_lru_clawler_mgdump_cmd(CrawlArgs[c.n])
      [] c.op = "mn" -> build_mn_cmd
      [] c.op = "me" -> build_me_cmd(c.key)
      [] c.op = "mg" -> build_mc_cmd("mg", c.key, build_mg_flags(SoloFlags("mg")[c.n]), None)
      [] c.op = "ms" ->
            build_mc_cmd("ms", c.key, build_ms_flags(SoloFlags("ms")[c.n]), Some("v"))
      [] c.op = "md" -> build_mc_cmd("md", c.key, build_md_flags(SoloFlags("md")[c.n]), None)
      [] c.op = "ma" -> build_mc_cmd("ma", c.key, build_ma_flags(SoloFlags("ma")[c.n]), None)
      [] c.op = "lru" -> build_lru_cmd(LruArgs[c.n])

\* What the stream holds when the pipeline runs: one response, or a line
\* that is none, or nothing
SoloResponses ==
    {"", "STORED\r\n", "NOT_STORED\r\n", "OK\r\n", "DELETED\r\n", "TOUCHED\r\n",
     "NOT_FOUND\r\n", "5\r\n", "VERSION 1.6\r\n", "MN\r\n", "EN\r\n", "ME k exp=-1\r\n",
     "END\r\n", "VALUE k 0 1\r\nv\r\nEND\r\n", "VALUE k 0 1\r\nv\r\nVALUE j 0 1\r\nw\r\nEND\r\n",
     "STAT pid 1\r\nEND\r\n", "key=a exp=-1\r\nEND\r\n", "mg a\r\nEN\r\n", "HD\r\n",
     "VA 1\r\n5\r\n", "NS\r\n", "NF\r\n", "ERROR\r\n"}

InitSolo ==
    /\ conn \in {Stream(bytes) : bytes \in SoloResponses}
    /\ cmds = << >>
    /\ calls = << >>
    /\ srv = << >>
    /\ ret = NoCall
    /\ shards = << >>

\* conn.pipeline().<op>(..)
Build(c) ==
    /\ ret.st = "None"
    /\ cmds' = << Encoded(c) >>
    /\ calls' = << c >>
    /\ UNCHANGED <<conn, srv, ret, shards>>

\* .execute() of the pipeline of one command
ExecuteSolo ==
    /\ cmds # << >> /\ ret.st = "None"
    /\ Executed(execute(conn, cmds))

NextSolo ==
    \/ cmds = << >> /\ \E op \in StorageOps, key \in SoloKeys, noreply \in BOOLEAN :
          Build(Solo(op, key, noreply, 0))
    \/ cmds = << >> /\ \E key \in SoloKeys, noreply \in BOOLEAN :
          Build(Solo("cas", key, noreply, 1))
    \/ cmds = << >> /\ \E username \in {"u", "_"} : Build(Solo("auth", username, FALSE, 0))
    \/ cmds = << >> /\ \E op \in {"version", "quit", "mn"} : Build(Solo(op, "", FALSE, 0))
    \/ cmds = << >> /\ \E graceful \in 0..1 : Build(Solo("shutdown", "", FALSE, graceful))
    \/ cmds = << >> /\ \E op \in {"cache_memlimit", "flush_all"}, noreply \in BOOLEAN,
                          n \in 0..1 : Build(Solo(op, "", noreply, n))
    \/ cmds = << >> /\ \E op \in {"delete", "incr", "decr", "touch"}, key \in SoloKeys,
                          noreply \in BOOLEAN : Build(Solo(op, key, noreply, 1))
    \/ cmds = << >> /\ \E op \in {"get", "gets", "gat", "gats"}, key \in SoloKeys :
          Build(Solo(op, key, FALSE, 1))
    \/ cmds = << >> /\ \E op \in MultiOps, key \in SoloKeys, n \in 0..2 :
          Build(Solo(op, key, FALSE, n))
    \/ cmds = << >> /\ \E n \in 1..Len(StatsArgs) : Build(Solo("stats", "", FALSE, n))
    \/ cmds = << >> /\ \E n \in 1..Len(SlabsAutomoveArgs) :
          Build(Solo("slabs_automove", "", FALSE, n))
    \/ cmds = << >> /\ \E n \in 1..Len(LruCrawlerArgs) : Build(Solo("lru_crawler", "", FALSE, n))
    \/ cmds = << >> /\ \E op \in {"lru_crawler_sleep", "lru_crawler_tocrawl", "slabs_reassign"} :
          Build(Solo(op, "", FALSE, 1))
    \/ cmds = << >> /\ \E n \in 1..2 : Build(Solo("lru_crawler_crawl", "", FALSE, n))
    \/ cmds = << >> /\ \E op \in {"lru_crawler_metadump", "lru_crawler_mgdump"}, n \in 1..3 :
          Build(Solo(op, "", FALSE, n))
    \/ cmds = << >> /\ \E key \in SoloKeys : Build(Solo("me", key, FALSE, 0))
    \/ cmds = << >> /\ \E op \in {"mg", "ms", "md", "ma"}, key \in SoloKeys, n \in 1..2 :
          Build(Solo(op, key, FALSE, n))
    \/ cmds = << >> /\ \E n \in 1..Len(LruArgs) : Build(Solo("lru", "", FALSE, n))
    \/ ExecuteSolo

SpecSolo == InitSolo /\ [][NextSolo]_vars

\* The stream a decoder of the one command starts on: the command written
\* and flushed
Sent == [Send(ret.before, Encoded(calls[1])) EXCEPT !.io = @ \o "|"]

\* The decoders of the verb of method op applied to s, with the variant of
\* PipelineResponse they fill: for the verbs that can carry noreply with
\* either setting, for the retrieval verbs with either shape.
Family(op, s) ==
    CASE op \in StorageOps \cup {"cas"} ->
            << Wrap("Bool", parse_storage_rp(s, FALSE)), Wrap("Bool", parse_storage_rp(s, TRUE)) >>
      [] op = "auth" -> << Wrap("Unit", parse_auth_rp(s)) >>
      [] op = "version" -> << Wrap("String", parse_version_rp(s)) >>
      [] op \in {"quit", "shutdown"} -> << Ok([tag |-> "Unit", val |-> "unit"], s) >>
      [] op \in {"cache_memlimit", "flush_all"} ->
            << Wrap("Unit", parse_ok_rp(s, FALSE)), Wrap("Unit", parse_ok_rp(s, TRUE)) >>
      [] op = "delete" ->
            << Wrap("Bool", parse_delete_rp(s, FALSE)), Wrap("Bool", parse_delete_rp(s, TRUE)) >>
      [] op \in {"incr", "decr"} ->
            << Wrap("Value", parse_incr_decr_rp(s, FALSE)),
               Wrap("Value", parse_incr_decr_rp(s, TRUE)) >>
      [] op = "touch" ->
            << Wrap("Bool", parse_touch_rp(s, FALSE)), Wrap("Bool", parse_touch_rp(s, TRUE)) >>
      [] op \in {"get", "gets", "gat", "gats"} \cup MultiOps ->
            << Wrap("OptionItem", Pop(parse_retrieval_rp(s))),
               Wrap("VecItem", parse_retrieval_rp(s)) >>
      [] op = "stats" -> << Wrap("HashMap", parse_stats_rp(s)) >>
      [] op \in {"slabs_automove", "slabs_reassign", "lru_crawler", "lru_crawler_sleep",
                 "lru_crawler_tocrawl", "lru_crawler_crawl", "lru"} ->
            << Wrap("Unit", parse_ok_rp(s, FALSE)) >>
      [] op = "lru_crawler_metadump" -> << Wrap("VecString", parse_lru_crawler_metadump_rp(s)) >>
      [] op = "lru_crawler_mgdump" -> << Wrap("VecString", parse_lru_crawler_mgdump_rp(s)) >>
      [] op = "mn" -> << Wrap("Unit", parse_mn_rp(s)) >>
      [] op = "me" -> << Wrap("OptionString", parse_me_rp(s)) >>
      [] op = "mg" -> << Wrap("MetaGet", parse_mg_rp(s)) >>
      [] op = "ms" -> << Wrap("MetaSet", parse_ms_rp(s)) >>
      [] op = "md" -> << Wrap("MetaDelete", parse_md_rp(s)) >>
      [] op = "ma" -> << Wrap("MetaArithmetic", parse_ma_rp(s)) >>

\* execute returned what the decoder's outcome r makes of the one command
ExecuteGave(r) ==
    /\ ret.st = r.st /\ ret.after = r.s
    /\ IF r.st = "Ok"
       THEN Len(ret.val) = 1 /\ ret.val[1].tag = r.val.tag /\ ret.val[1].val = r.val.val
       ELSE ret.val = r.val

OneOf(outcomes) == \E i \in 1..Len(outcomes) : ExecuteGave(outcomes[i])

\* C34: the command of every builder of Pipeline, made for any key without
\* a space or a line break, is decoded by a decoder of the builder's own
\* verb: execute returns what that decoder makes of the stream and reads
\* what it reads; so the assertion that ends the chain of branches, which
\* only a command that starts with "me " passes, stops no such command.
C34_OwnDecoder ==
    ret.c.op = "execute" =>
        /\ OneOf(Family(calls[1].op, Sent))
        /\ ~\E op \in {"stats", "lru", "me"} :
              /\ calls[1].op # op
              /\ StartsWith(Encoded(calls[1]), op \o " ")

\* me on the key "noreply" passed the assertion and took the line ME.
C34_Witness ==
    /\ ret.c.op = "execute" /\ calls[1] = Solo("me", "noreply", FALSE, 0)
    /\ ret.before.rd = "ME k exp=-1\r\n"
    /\ ret.st = "Ok" /\ ret.val = << [tag |-> "OptionString", val |-> Some("k exp=-1")] >>

\* Connection::<op> on the stream s with the arguments of call c
Direct(c, s) ==
    CASE c.op \in StorageOps -> storage_cmd(s, c.op, c.key, 0, 0, None, c.noreply, "v")
      [] c.op = "cas" -> storage_cmd(s, "cas", c.key, 0, 0, Some(c.n), c.noreply, "v")
      [] c.op = "auth" -> auth_cmd(s, c.key, "p")
      [] c.op = "version" -> version_cmd(s)
      [] c.op = "quit" -> quit_cmd(s)
      [] c.op = "shutdown" -> shutdown_cmd(s, c.n = 1)
      [] c.op = "cache_memlimit" -> cache_memlimit_cmd(s, c.n, c.noreply)
      [] c.op = "flush_all" ->
            flush_all_cmd(s, IF c.n = 0 THEN None ELSE Some(c.n), c.noreply)
      [] c.op = "delete" -> delete_cmd(s, c.key, c.noreply)
      [] c.op \in {"incr", "decr"} -> incr_decr_cmd(s, c.op, c.key, c.n, c.noreply)
      [] c.op = "touch" -> touch_cmd(s, c.key, c.n, c.noreply)
      [] c.op \in {"get", "gets"} -> Pop(retrieval_cmd(s, c.op, None, << c.key >>))
      [] c.op \in {"gat", "gats"} -> Pop(retrieval_cmd(s, c.op, Some(0), << c.key >>))
      [] c.op \in {"get_multi", "gets_multi"} ->
            retrieval_cmd(s, NameOf(c.op), None, KeysOf(c))
      [] c.op \in {"gat_multi", "gats_multi"} ->
            retrieval_cmd(s, NameOf(c.op), Some(0), KeysOf(c))
      [] c.op = "stats" -> stats_cmd(s, StatsArgs[c.n])
      [] c.op = "slabs_automove" -> slabs_automove_cmd(s, SlabsAutomoveArgs[c.n])
      [] c.op = "lru_crawler" -> lru_crawler_cmd(s, LruCrawlerArgs[c.n])
      [] c.op = "lru_crawler_sleep" -> lru_crawler_sleep_cmd(s, c.n)
      [] c.op = "lru_crawler_tocrawl" -> lru_crawler_tocrawl_cmd(s, c.n)
      [] c.op = "lru_crawler_crawl" -> lru_crawler_crawl_cmd(s, CrawlArgs[c.n])
      [] c.op = "slabs_reassign" -> slabs_reassign_cmd(s, c.n, c.n + 1)
      [] c.op = "lru_crawler_metadump" -> lru_crawler_metadump_cmd(s, CrawlArgs[c.n])
      [] c.op = "lru_crawler_mgdump" -> lru_crawler_mgdump_cmd(s, CrawlArgs[c.n])
      [] c.op = "mn" -> mn_cmd(s)
      [] c.op = "me" -> me_cmd(s, c.key)
      [] c.op = "mg" -> mg_cmd(s, c.key, SoloFlags("mg")[c.n])
      [] c.op = "ms" -> ms_cmd(s, c.key, SoloFlags("ms")[c.n], "v")
      [] c.op = "md" -> md_cmd(s, c.key, SoloFlags("md")[c.n])
      [] c.op = "ma" -> ma_cmd(s, c.key, SoloFlags("ma")[c.n])
      [] c.op = "lru" -> lru_cmd(s, LruArgs[c.n])

\* The variant of PipelineResponse that holds the return type of
\* Connection::<op>
VariantOf(op) ==
    CASE op \in StorageOps \cup {"cas", "delete", "touch"} -> "Bool"
      [] op \in {"auth", "quit", "shutdown", "cache_memlimit", "flush_all", "slabs_automove",
                 "slabs_reassign", "lru_crawler", "lru_crawler_sleep", "lru_crawler_tocrawl",
                 "lru_crawler_crawl", "mn", "lru"} -> "Unit"
      [] op = "version" -> "String"
      [] op \in {"incr", "decr"} -> "Value"
      [] op \in {"get", "gets", "gat", "gats"} -> "OptionItem"
      [] op \in MultiOps -> "VecItem"
      [] op = "stats" -> "HashMap"
      [] op \in {"lru_crawler_metadump", "lru_crawler_mgdump"} -> "VecString"
      [] op = "me" -> "OptionString"
      [] op = "mg" -> "MetaGet"
      [] op = "ms" -> "MetaSet"
      [] op = "md" -> "MetaDelete"
      [] op = "ma" -> "MetaArithmetic"

\* execute of the one command c gave what the direct call's outcome d gives
AsDirect(c, d) ==
    /\ ret.st = d.st
    /\ ret.after.rd = d.s.rd /\ ret.after.wr = d.s.wr
    /\ IF d.st = "Ok"
       THEN Len(ret.val) = 1 /\ ret.val[1].tag = VariantOf(c.op) /\ ret.val[1].val = d.val
       ELSE ret.val = d.val

\* C35: a method that Connection and Pipeline both have, run alone in a
\* pipeline, returns the value of the direct method in the variant of
\* PipelineResponse of its return type (VecItem for the *_multi methods,
\* whatever the number of keys) and reads the same bytes.
C35_PipelineAsDirect ==
    ret.c.op = "execute" => AsDirect(calls[1], Direct(calls[1], ret.before))

\* The calls on which the statement of C35 fails: a *_multi call with
\* fewer than two keys, and a call without noreply on the key "noreply".
C35_Exceptions ==
    \/ calls[1].op \in MultiOps /\ calls[1].n < 2
    \/ /\ calls[1].op \in {"delete", "incr", "decr", "touch"}
       /\ calls[1].key = "noreply" /\ ~calls[1].noreply

C35_Rest == (ret.c.op = "execute" /\ ~C35_Exceptions) => AsDirect(calls[1], Direct(calls[1], ret.before))

-----------------------------------------------------------------------------
(* What the builders of a pipeline change.                                 *)

\* The step is a call of a builder
Built == calls' # calls

\* The client wrote to the stream or read from it: it made an I/O call, or
\* the bytes written changed, or unread bytes are gone
Touched ==
    \/ conn'.io # conn.io \/ conn'.wr # conn.wr
    \/ Len(conn'.rd) < Len(conn.rd)

\* C36: a call of a builder of Pipeline puts exactly one command, the
\* encoding of that call, at the end of the list of pending commands,
\* keeps the commands before it and leaves the stream of the connection as
\* it is; a step in which the client writes to the stream or reads from it
\* is a step of execute.
C36_BuildersOnlyAppend ==
    [][/\ Built =>
            /\ calls' = Append(calls, calls'[Len(calls')])
            /\ cmds' = Append(cmds, CommandOf(calls'[Len(calls')]))
            /\ conn' = conn
       /\ Touched => ret.st = "None" /\ ret'.c.op = "execute" /\ cmds' = << >>]_vars

\* Two builders were called, delete after version; both commands are
\* pending in that order and the stream is untouched.
C36_Witness ==
    /\ calls = << Call("version", "", FALSE), Call("delete", "k", FALSE) >>
    /\ cmds = << build_version_cmd, build_delete_cmd("k", FALSE) >>
    /\ conn = Stream("") /\ ret.st = "None"

-----------------------------------------------------------------------------
(* A router made from any list of connections, the empty one included.     *)

\* ClientCrc32::new(conns) with 0 to MaxShards connections
InitAnyRouter ==
    /\ \E n \in 0..MaxShards, line \in RouterLines : shards = [i \in 1..n |-> Stream(line)]
    /\ conn = Stream("")
    /\ cmds = << >>
    /\ calls = << >>
    /\ srv = << >>
    /\ ret = NoCall

\* A keyed method on a router without a connection: size is 0, and
\* hash % size panics before a connection is picked.
RemainderByZero(c) ==
    /\ Len(shards) = 0
    /\ Len(calls) < MaxCalls
    /\ ret' = [c |-> c, st |-> "Panic", val |-> [kind |-> "Panic", line |-> ""],
               before |-> shards, after |-> shards]
    /\ calls' = Append(calls, c)
    /\ UNCHANGED <<conn, cmds, srv, shards>>

NextAnyRouter ==
    \/ Len(shards) > 0 /\ NextRouter
    \/ \E op \in RouterOps, key \in RouterKeys : RemainderByZero(Call(op, key, FALSE))

SpecAnyRouter == InitAnyRouter /\ [][NextAnyRouter]_vars

\* C37: on a router made by new from any list of connections, every keyed
\* call picks an index inside the list and returns Ok or Err.
C37_IndexInsideAnyList ==
    ret.st # "None" =>
        /\ ret.st \in {"Ok", "Err"}
        /\ Len(shards) > 0
        /\ Shard(ret.c.key) \in 1..Len(shards)

\* The keyed calls on a router with at least one connection
C37_NonEmpty ==
    (ret.st # "None" /\ Len(shards) > 0) =>
        /\ ret.st \in {"Ok", "Err"}
        /\ Shard(ret.c.key) \in 1..Len(shards)

-----------------------------------------------------------------------------
(* The watcher: the watch command and the log lines that follow it.        *)

\* WatchArg
watch_arg(a) ==
    CASE a = "Fetchers"    -> " fetchers"
      [] a = "Mutations"   -> " mutations"
      [] a = "Evictions"   -> " evictions"
      [] a = "Connevents"  -> " connevents"
      [] a = "Proxyreqs"   -> " proxyreqs"
      [] a = "Proxyevents" -> " proxyevents"
      [] a = "Proxyuser"   -> " proxyuser"
      [] a = "Deletions"   -> " deletions"

build_watch_cmd(arg) ==
    IF Len(arg) = 0 THEN "watch\r\n"
    ELSE "watch" \o Concat([i \in 1..Len(arg) |-> watch_arg(arg[i])]) \o "\r\n"

watch_cmd(s, arg) == parse_ok_rp(Send(s, build_watch_cmd(arg)), FALSE)

\* A variant of message_line that takes a blank line for the end of the
\* stream.
message_line_blank(r) ==
    IF TrimEnd(r.line) = "" THEN Ok(None, r.s) ELSE Ok(Some(TrimEnd(r.line)), r.s)

\* n == 0 => None, else Some(line.trim_end())
message_line(r) == IF r.n = 0 THEN Ok(None, r.s) ELSE Ok(Some(TrimEnd(r.line)), r.s)

\* WatchStream::message
message(s) == message_line(read_line(s))

WatchArgs == {<< >>, << "Fetchers" >>, << "Fetchers", "Mutations" >>,
              << "Evictions", "Connevents", "Proxyreqs", "Proxyevents", "Proxyuser",
                 "Deletions" >>}

\* The lines the server may answer the watch command with
WatchAnswers == [body : {"OK", "ERROR", "OK x", ""}, ending : {"\r\n", "\n"}]

\* The log lines: terminated by CR LF or by a bare LF; the last line may
\* be cut off by the end of the stream.
LogBodies == {"ts=1 gid=1 type=item_get key=k status=not_found", "ts=2 type=item_store", ""}

LogLines == [body : LogBodies, ending : {"\r\n", "\n"}]

CutOff == [body : LogBodies \ {""}, ending : {""}]

Logs ==
    UNION {[1..n -> LogLines] : n \in 0..MaxLines}
    \cup {Append(lines, last) : lines \in UNION {[1..n -> LogLines] : n \in 0..(MaxLines - 1)},
                                last \in CutOff}

\* What the server sends on the connection before it closes it
InitWatch ==
    /\ \E lines \in {<< >>} \cup {<< a >> \o l : a \in WatchAnswers, l \in Logs} :
          srv = lines /\ conn = Stream(BytesFrom(lines, 1))
    /\ cmds = << >>
    /\ calls = << >>
    /\ ret = NoCall
    /\ shards = << >>

\* The call c on the connection or on the stream of the watcher
Watched(c, r) ==
    /\ conn' = r.s
    /\ ret' = [c |-> c, st |-> r.st, val |-> r.val, before |-> conn, after |-> r.s]
    /\ calls' = Append(calls, c)
    /\ UNCHANGED <<cmds, srv, shards>>

\* Connection::watch: the connection is consumed, and lives on in the
\* WatchStream when the call returns Ok
Watch(arg) == Watched(Call("watch", Join(arg, " "), FALSE), watch_cmd(conn, arg))

\* WatchStream::message, on the stream watch returned
Message ==
    /\ calls # << >> /\ ret.st = "Ok"
    /\ Len(calls) < MaxLines + 3
    /\ Watched(Call("message", "", FALSE), message(conn))

NextWatch ==
    \/ calls = << >> /\ \E arg \in WatchArgs : Watch(arg)
    \/ Message

SpecWatch == InitWatch /\ [][NextWatch]_vars

\* The server answered the watch command with the line OK
Answered == srv # << >> /\ srv[1] = [body |-> "OK", ending |-> "\r\n"]

-----------------------------------------------------------------------------
(* The pool: a connection is recycled by a version command.                *)

\* match conn.version().await { Ok(_) => Ok(()), Err(e) => Err(e.into()) }
recycled(r) == IF r.st = "Ok" THEN Ok("unit", r.s) ELSE r

\* Manager::recycle
recycle(s) == recycled(version_cmd(s))

\* The lines a pooled connection may hold unread, or get as the answer to
\* version
PoolBodies == {"VERSION 1.6.21", "VERSION 1", "VERSION ", "VERSION", "VERSIONS", "STORED",
               "END", "version 1.6.21", ""}

PoolLines == [body : PoolBodies, ending : {"\r\n", "\n"}]

InitPool ==
    /\ \E lines \in UNION {[1..n -> PoolLines] : n \in 0..MaxLines} :
          srv = lines /\ conn = Stream(BytesFrom(lines, 1))
    /\ cmds = << >>
    /\ calls = << >>
    /\ ret = NoCall
    /\ shards = << >>

\* The pool recycles the connection; one that was rejected is dropped
Recycle ==
    /\ ret.st \in {"None", "Ok"}
    /\ Len(calls) < MaxCalls
    /\ Watched(Call("recycle", "", FALSE), recycle(conn))

NextPool == Recycle

SpecPool == InitPool /\ [][NextPool]_vars

\* C39: recycle accepts the connection when the next unread line, read as
\* the answer to its version command, starts with VERSION, and rejects it
\* with an error for every other line and at the end of the stream.
C39_RecycleIffVersion ==
    ret.c.op = "recycle" =>
        /\ SubSeq(ret.after.io, Len(ret.before.io) + 1, Len(ret.after.io)) = "wfl"
        /\ IF StartsWith(FirstUnreadLine(ret.before.rd), "VERSION")
           THEN ret.st = "Ok"
           ELSE ret.st = "Err" /\ ret.val.line = FirstUnreadLine(ret.before.rd)

\* The same for the lines that hold at least a byte between "VERSION" and
\* a line ending of two bytes
C39_LongEnough ==
    (ret.c.op = "recycle" /\ ~(/\ StartsWith(FirstUnreadLine(ret.before.rd), "VERSION")
                               /\ Len(FirstUnreadLine(ret.before.rd)) < 10)) =>
        IF StartsWith(FirstUnreadLine(ret.before.rd), "VERSION")
        THEN ret.st = "Ok"
        ELSE ret.st = "Err" /\ ret.val.line = FirstUnreadLine(ret.before.rd)

====
